---------------------------- MODULE Spec2Model ----------------------------
(***************************************************************************)
(* A model of the peak matching and scoring engine of the NMR analysis     *)
(* tool: detector.parse_peak_data, detector.find_compound_matches,         *)
(* detector.analyze_mixture, the storage functions of db_operations that   *)
(* feed it, and compare_nmr_peaks.compare_peaks.                           *)
(*                                                                         *)
(* Numbers.  A chemical shift is a float in the code.  The model keeps it  *)
(* exact: a numeric token of the text stands for a natural number n of     *)
(* token units and every parsed value is counted in HALF token units, so   *)
(* that float("n") is 2n and the midpoint of the range "a-b" is a+b.       *)
(* Tolerances are in the same half units.  Fractions (percentages, the     *)
(* match score) are exact rationals [n, d].                                *)
(***************************************************************************)
EXTENDS Integers, Sequences, FiniteSets, TLC

VARIABLES
    pc,               \* position of the modelled call: "call" before, "done" after
    sample_peaks,     \* find_compound_matches: argument sample_peaks (list of dicts)
    db_peaks,         \* find_compound_matches: argument db_peaks (list of dicts)
    sample_hsqc,      \* analyze_mixture: argument sample_hsqc (peak data)
    sample_cosy,      \* analyze_mixture: argument sample_cosy
    sample_hmbc,      \* analyze_mixture: argument sample_hmbc
    db_entries,       \* analyze_mixture: argument db_entries (list of compound dicts)
    tolerance_h,      \* argument tolerance_h
    tolerance_c,      \* argument tolerance_c
    matches,          \* what find_compound_matches returned
    pairs,            \* for each match, <<index of its sample peak, index of its db peak>>
    result,           \* what analyze_mixture returned
    scored,           \* per compound, what analyze_mixture computed and logged
    entries_collection, \* the documents of the MongoDB collection "entries"
    arg_peak_data,    \* parse_peak_data: argument peak_data
    arg_nmr_type,     \* parse_peak_data: argument nmr_type
    hsqc_peaks_str,   \* compare_peaks: argument hsqc_peaks_str
    db_df,            \* compare_nmr_peaks: the module's reference table db_df
    exp_df,           \* compare_peaks: the frame exp_df when the comparison starts
    db_ops_peaks,     \* what db_operations.parse_peaks_string returned
    database_peaks,   \* what database._parse_peak_string_to_list returned
    request_pc,       \* per GET /api/entries request under way, its position
    connected,        \* db_operations: whether entries_collection is not None
    initial_data      \* the entries of nmr_database.json

vars == <<pc, sample_peaks, db_peaks, sample_hsqc, sample_cosy, sample_hmbc,
          db_entries, tolerance_h, tolerance_c, matches, pairs, result, scored,
          entries_collection, arg_peak_data, arg_nmr_type, hsqc_peaks_str, db_df, exp_df,
          db_ops_peaks, database_peaks, request_pc, connected, initial_data>>

(***************************************************************************)
(* Values.  Python values that reach the parsers are tagged records:       *)
(*   [k |-> "num", v |-> n]        the string of a plain decimal numeral   *)
(*   [k |-> "range", a, b]         the string "a-b" of two numerals        *)
(*   [k |-> "word"]                a string with a character outside       *)
(*                                 digits, dot and hyphen                  *)
(*   [k |-> "dot"]                 the string "."                          *)
(*   [k |-> "dots"]                a numeral with several dots, as "1.1.1" *)
(*   [k |-> "hyphens", parts]      numerals joined by several hyphens, as  *)
(*                                 "1-1-1"; parts are the numerals         *)
(*   [k |-> "float", v |-> h]      a Python float (not a string), h halves *)
(*   [k |-> "none"]                Python None                             *)
(***************************************************************************)
None == -1

NumTok(n) == [k |-> "num", v |-> n]

RangeTok(a, b) == [k |-> "range", a |-> a, b |-> b]

WordTok == [k |-> "word"]

DotTok == [k |-> "dot"]

MultiDotTok == [k |-> "dots"]

MultiHyphenTok == [k |-> "hyphens", parts |-> <<1, 1, 1>>]

FloatVal(h) == [k |-> "float", v |-> h]

NoneVal == [k |-> "none"]

\* isinstance(x, str)
IsStr(x) == x.k \in {"num", "range", "word", "dot", "dots", "hyphens"}

\* '-' in s
HasHyphen(s) == s.k \in {"range", "hyphens"}

\* float(s) of a string without hyphen; None stands for ValueError
FloatOfStr(s) == IF s.k = "num" THEN 2 * s.v ELSE None

\* the shift pattern [\d\.]+(?:-[\d\.]+)? matches the whole token
ShiftShaped(s) == s.k \in {"num", "dot", "dots", "range"}

\* the intensity pattern \d*\.?\d* matches the whole token
IntensityShaped(s) == s.k \in {"num", "dot"}

\* start, end = map(float, val_str.split('-')); (start + end) / 2, and None when
\* the split gives more than two parts
parse_single_value_or_range(val_str) ==
    IF ~IsStr(val_str) THEN None
    ELSE IF HasHyphen(val_str)
    THEN (IF val_str.k = "range" THEN val_str.a + val_str.b ELSE None)
    ELSE FloatOfStr(val_str)


(***************************************************************************)
(* Peak data.  What parse_peak_data receives is one of                     *)
(*   [form |-> "str",  lines |-> <<line, ...>>]   text; a line is the      *)
(*                     sequence of its whitespace separated tokens, the    *)
(*                     empty sequence being a blank line                   *)
(*   [form |-> "list", items |-> <<item, ...>>]   a Python list; an item   *)
(*                     is [k |-> "pair", v |-> <<x, y>>] (a list [x, y] of *)
(*                     two floats, as db_operations stores peaks) or       *)
(*                     [k |-> "dict", d |-> record of Values]              *)
(*   [form |-> "none"]                            None                     *)
(* A parsed peak is the dict {'H','C','Intensity'} (hsqc, hmbc) or         *)
(* {'H1','H2','Intensity'} (cosy).                                         *)
(***************************************************************************)
Str(lines) == [form |-> "str", lines |-> lines]

List(items) == [form |-> "list", items |-> items]

Pair(x, y) == [k |-> "pair", v |-> <<x, y>>]

Dict(d) == [k |-> "dict", d |-> d]

\* the dict parse_peak_data builds for one peak of the given spectrum type
PeakDict(nmr_type, shift1, shift2, intensity) ==
    IF nmr_type = "cosy"
    THEN [H1 |-> shift1, H2 |-> shift2, Intensity |-> intensity]
    ELSE [H |-> shift1, C |-> shift2, Intensity |-> intensity]

\* re.match of the line pattern: two shift tokens and an optional intensity token
LineMatches(line) ==
    /\ Len(line) \in {2, 3}
    /\ ShiftShaped(line[1])
    /\ ShiftShaped(line[2])
    /\ Len(line) = 3 => IntensityShaped(line[3])

\* float(intensity_str) raises ValueError, outside any try, for the token "."
LineRaises(line) ==
    /\ LineMatches(line)
    /\ Len(line) = 3
    /\ FloatOfStr(line[3]) = None

\* the peaks one line of text appends: none or one
ParseLine(line, nmr_type) ==
    IF ~LineMatches(line) THEN <<>>
    ELSE LET shift1 == parse_single_value_or_range(line[1])
             shift2 == parse_single_value_or_range(line[2])
             intensity == IF Len(line) = 3 THEN FloatOfStr(line[3]) ELSE 2
         IN IF shift1 = None \/ shift2 = None THEN <<>>
            ELSE <<PeakDict(nmr_type, shift1, shift2, intensity)>>

\* peak_dict.get(key): the value, or None when the key is absent
Get(d, key) == IF key \in DOMAIN d THEN d[key] ELSE NoneVal

\* float(peak_dict.get('Intensity', 1.0)); None stands for an exception
IntensityOf(d) ==
    IF "Intensity" \notin DOMAIN d THEN 2
    ELSE LET x == d["Intensity"]
         IN IF x.k = "float" THEN x.v
            ELSE IF x.k = "num" THEN 2 * x.v
            ELSE None

\* the peaks one item of a list appends: none or one
ParseItem(item, nmr_type) ==
    IF item.k # "dict" THEN <<>>
    ELSE LET shift1 == parse_single_value_or_range(
                           Get(item.d, IF nmr_type = "cosy" THEN "H1" ELSE "H"))
             shift2 == parse_single_value_or_range(
                           Get(item.d, IF nmr_type = "cosy" THEN "H2" ELSE "C"))
             intensity == IntensityOf(item.d)
         IN IF intensity = None \/ shift1 = None \/ shift2 = None THEN <<>>
            ELSE <<PeakDict(nmr_type, shift1, shift2, intensity)>>

RECURSIVE ParseLines(_, _)
ParseLines(lines, nmr_type) ==
    IF lines = <<>> THEN <<>>
    ELSE ParseLine(Head(lines), nmr_type) \o ParseLines(Tail(lines), nmr_type)

RECURSIVE ParseItems(_, _)
ParseItems(items, nmr_type) ==
    IF items = <<>> THEN <<>>
    ELSE ParseItem(Head(items), nmr_type) \o ParseItems(Tail(items), nmr_type)

\* whether parse_peak_data raises instead of returning
ParseRaises(peak_data) ==
    /\ peak_data.form = "str"
    /\ \E i \in 1..Len(peak_data.lines) : LineRaises(peak_data.lines[i])

\* parse_peak_data(peak_data, nmr_type).to_dict('records'), when it returns
parse_peak_data(peak_data, nmr_type) ==
    IF peak_data.form = "str" THEN ParseLines(peak_data.lines, nmr_type)
    ELSE IF peak_data.form = "list" THEN ParseItems(peak_data.items, nmr_type)
    ELSE <<>>


(***************************************************************************)
(* find_compound_matches (detector.py 356-392).                            *)
(***************************************************************************)
Abs(x) == IF x < 0 THEN -x ELSE x

\* 'H' if 'H' in peak else 'H1'
HKey(peak) == IF "H" \in DOMAIN peak THEN "H" ELSE "H1"

\* 'C' if 'C' in peak else 'H2'
CKey(peak) == IF "C" \in DOMAIN peak THEN "C" ELSE "H2"

\* the match check of one database peak against one sample peak
Within(db_peak, sample_peak, tol_h, tol_c) ==
    /\ Abs(db_peak[HKey(db_peak)] - sample_peak[HKey(sample_peak)]) <= tol_h
    /\ Abs(db_peak[CKey(db_peak)] - sample_peak[CKey(sample_peak)]) <= tol_c

\* a variant of Candidates that forgets matched_sample_peak_indices
CandidatesReusing(sample_list, db_peak, matched, tol_h, tol_c) ==
    {i \in 1..Len(sample_list) : Within(db_peak, sample_list[i], tol_h, tol_c)}

\* the sample indices the inner loop may stop at: not yet matched, within tolerance
Candidates(sample_list, db_peak, matched, tol_h, tol_c) ==
    {i \in 1..Len(sample_list) :
        i \notin matched /\ Within(db_peak, sample_list[i], tol_h, tol_c)}

\* a variant of FirstOf that takes the last candidate
FirstOfLast(indices) == CHOOSE i \in indices : \A k \in indices : k <= i

\* the index at which the inner loop breaks: enumerate visits indices in order
FirstOf(indices) == CHOOSE i \in indices : \A k \in indices : i <= k

\* the outer loop from database peak j on; acc holds matches, pairs and
\* matched_sample_peak_indices so far
RECURSIVE MatchLoop(_, _, _, _, _, _)
MatchLoop(sample_list, db_list, j, tol_h, tol_c, acc) ==
    IF j > Len(db_list) THEN acc
    ELSE LET cand == Candidates(sample_list, db_list[j], acc.matched, tol_h, tol_c)
         IN IF cand = {} THEN MatchLoop(sample_list, db_list, j + 1, tol_h, tol_c, acc)
            ELSE LET i == FirstOf(cand)
                 IN MatchLoop(sample_list, db_list, j + 1, tol_h, tol_c,
                       [matches |-> Append(acc.matches,
                                       [sample_peak |-> sample_list[i],
                                        db_peak |-> db_list[j]]),
                        pairs |-> Append(acc.pairs, <<i, j>>),
                        matched |-> acc.matched \cup {i}])

\* the whole run of find_compound_matches: its matches, with their indices
MatchRun(sample_list, db_list, tol_h, tol_c) ==
    MatchLoop(sample_list, db_list, 1, tol_h, tol_c,
              [matches |-> <<>>, pairs |-> <<>>, matched |-> {}])

find_compound_matches(sample_list, db_list, tol_h, tol_c) ==
    MatchRun(sample_list, db_list, tol_h, tol_c).matches


(***************************************************************************)
(* Fractions.  len(matches) / len(compound_peaks) and np.mean are floats   *)
(* in the code; the model keeps them as exact rationals in lowest terms,   *)
(* so that equal numbers are equal records.  None is the record Null.      *)
(***************************************************************************)
RECURSIVE GCD(_, _)
GCD(a, b) == IF b = 0 THEN a ELSE GCD(b, a % b)

Frac(n, d) == LET g == GCD(n, d) IN [n |-> n \div g, d |-> d \div g]

Null == [none |-> TRUE]

FracAdd(p, q) == Frac(p.n * q.d + q.n * p.d, p.d * q.d)

FracLess(p, q) == p.n * q.d < q.n * p.d

RECURSIVE FracSum(_)
FracSum(fracs) ==
    IF fracs = <<>> THEN Frac(0, 1) ELSE FracAdd(Head(fracs), FracSum(Tail(fracs)))

\* a variant of Mean that divides by the number of spectrum types
MeanWrongCount(fracs) == LET sum == FracSum(fracs) IN Frac(sum.n, sum.d * 3)

\* np.mean(scores_to_average), for a non-empty list
Mean(fracs) == LET sum == FracSum(fracs) IN Frac(sum.n, sum.d * Len(fracs))

(***************************************************************************)
(* analyze_mixture (detector.py 396-544).                                  *)
(***************************************************************************)
NmrTypes == {"hsqc", "cosy", "hmbc"}

\* compound.get('hsqc_peaks', ''), and the like
PeaksField(compound, nmr_type) ==
    LET key == IF nmr_type = "hsqc" THEN "hsqc_peaks"
               ELSE IF nmr_type = "cosy" THEN "cosy_peaks" ELSE "hmbc_peaks"
    IN IF key \in DOMAIN compound THEN compound[key] ELSE Str(<<>>)

\* a variant of SecondTolerance that hands tolerance_c to every spectrum type
SecondToleranceAlwaysC(nmr_type, tol_h, tol_c) == tol_c

\* the second tolerance handed to find_compound_matches: tolerance_h for COSY
SecondTolerance(nmr_type, tol_h, tol_c) == IF nmr_type = "cosy" THEN tol_h ELSE tol_c

\* next(i for i, item in enumerate(all_sample_peaks[t]) if item == match['sample_peak'])
IndexOf(sample_list, peak) ==
    CHOOSE i \in 1..Len(sample_list) :
        /\ sample_list[i] = peak
        /\ \A k \in 1..(i - 1) : sample_list[k] # peak

\* the indices the loops at 443-461 add to overall_matched_<type>_indices
FoundIndices(sample_list, type_matches) ==
    {IndexOf(sample_list, type_matches[k].sample_peak) : k \in 1..Len(type_matches)}

\* a variant of Percentage that gives 0 to a type the compound has no peak of
PercentageZeroForNone(n_matches, n_peaks) ==
    IF n_peaks > 0 THEN Frac(n_matches, n_peaks) ELSE Frac(0, 1)

\* <type>_match_percentage
Percentage(n_matches, n_peaks) ==
    IF n_peaks > 0 THEN Frac(n_matches, n_peaks) ELSE Null

\* scores_to_average: the percentages that are not None, in the order hsqc, cosy, hmbc
ScoresToAverage(pct) ==
    (IF pct.hsqc # Null THEN <<pct.hsqc>> ELSE <<>>)
    \o (IF pct.cosy # Null THEN <<pct.cosy>> ELSE <<>>)
    \o (IF pct.hmbc # Null THEN <<pct.hmbc>> ELSE <<>>)

\* match_score
MatchScore(pct) ==
    LET scores == ScoresToAverage(pct)
    IN IF scores # <<>> THEN Mean(scores) ELSE Frac(0, 1)

\* the threshold 0.10 of the overall match score, as ThresholdNum / ThresholdDen
ThresholdNum == 1

ThresholdDen == 10

\* a variant of Accepted that leaves out a score of exactly 0.10
AcceptedStrict(match_score) == match_score.n * ThresholdDen > ThresholdNum * match_score.d

\* match_score >= 0.10
Accepted(match_score) == match_score.n * ThresholdDen >= ThresholdNum * match_score.d

\* the dict with one value per spectrum type
PerType(Op(_)) == [hsqc |-> Op("hsqc"), cosy |-> Op("cosy"), hmbc |-> Op("hmbc")]

\* one pass of the loop over db_entries: everything computed for one compound
ScoreCompound(all_sample_peaks, compound, tol_h, tol_c) ==
    LET compound_peaks == PerType(LAMBDA t : parse_peak_data(PeaksField(compound, t), t))
        run == PerType(LAMBDA t : MatchRun(all_sample_peaks[t], compound_peaks[t],
                                           tol_h, SecondTolerance(t, tol_h, tol_c)))
        pct == PerType(LAMBDA t : Percentage(Len(run[t].matches), Len(compound_peaks[t])))
    IN [compound |-> compound,
        n_peaks |-> PerType(LAMBDA t : Len(compound_peaks[t])),
        matches |-> PerType(LAMBDA t : run[t].matches),
        pairs |-> PerType(LAMBDA t : run[t].pairs),
        found |-> PerType(LAMBDA t : FoundIndices(all_sample_peaks[t], run[t].matches)),
        percentage |-> pct,
        match_score |-> MatchScore(pct)]

\* the entry appended to results for an accepted compound
ResultEntry(sc) ==
    [compound |-> sc.compound,
     match_score |-> sc.match_score,
     details |-> [hsqc_matches |-> <<Len(sc.matches.hsqc), sc.n_peaks.hsqc>>,
                  cosy_matches |-> <<Len(sc.matches.cosy), sc.n_peaks.cosy>>,
                  hmbc_matches |-> <<Len(sc.matches.hmbc), sc.n_peaks.hmbc>>,
                  hsqc_percentage |-> sc.percentage.hsqc,
                  cosy_percentage |-> sc.percentage.cosy,
                  hmbc_percentage |-> sc.percentage.hmbc]]

\* results: the entries of the accepted compounds, in db_entries order
RECURSIVE Results(_)
Results(scores) ==
    IF scores = <<>> THEN <<>>
    ELSE (IF Accepted(Head(scores).match_score)
          THEN <<ResultEntry(Head(scores))>> ELSE <<>>) \o Results(Tail(scores))

\* a variant of Insert that puts x ahead of the entries of equal score
InsertUnstable(sorted, x) ==
    LET ahead == {k \in 1..Len(sorted) : FracLess(x.match_score, sorted[k].match_score)}
    IN SubSeq(sorted, 1, Cardinality(ahead)) \o <<x>>
       \o SubSeq(sorted, Cardinality(ahead) + 1, Len(sorted))

\* sorted(results, key=match_score, reverse=True): where entry x goes in an
\* already sorted list, behind every entry whose score is not smaller
Insert(sorted, x) ==
    LET ahead == {k \in 1..Len(sorted) : ~FracLess(sorted[k].match_score, x.match_score)}
    IN SubSeq(sorted, 1, Cardinality(ahead)) \o <<x>>
       \o SubSeq(sorted, Cardinality(ahead) + 1, Len(sorted))

RECURSIVE SortedFrom(_, _)
SortedFrom(sorted, rest) ==
    IF rest = <<>> THEN sorted ELSE SortedFrom(Insert(sorted, Head(rest)), Tail(rest))

\* sorted_results
Sorted(results) == SortedFrom(<<>>, results)

\* [[peak[a], peak[b]] for i, peak in enumerate(sample) if i not in overall_matched]
RECURSIVE UnmatchedFrom(_, _, _)
UnmatchedFrom(sample_list, i, overall_matched) ==
    IF i > Len(sample_list) THEN <<>>
    ELSE (IF i \notin overall_matched
          THEN <<(<<sample_list[i][HKey(sample_list[i])],
                    sample_list[i][CKey(sample_list[i])]>>)>>
          ELSE <<>>) \o UnmatchedFrom(sample_list, i + 1, overall_matched)

\* all_sample_peaks: the parsed sample, per spectrum type
AllSamplePeaks(hsqc, cosy, hmbc) ==
    [hsqc |-> parse_peak_data(hsqc, "hsqc"),
     cosy |-> parse_peak_data(cosy, "cosy"),
     hmbc |-> parse_peak_data(hmbc, "hmbc")]

\* the peaks of a list at the indices outside drop, in order
Remaining(sample_list, drop) ==
    LET keep == {i \in 1..Len(sample_list) : i \notin drop}
        nth(n) == CHOOSE i \in keep : Cardinality({k \in keep : k < i}) = n - 1
    IN [n \in 1..Cardinality(keep) |-> sample_list[nth(n)]]

\* a variant of ScoresFrom in which a sample peak paired with one compound is no
\* longer available to the compounds after it
RECURSIVE ScoresFromSharing(_, _, _, _)
ScoresFromSharing(all_sample_peaks, entries, tol_h, tol_c) ==
    IF entries = <<>> THEN <<>>
    ELSE LET sc == ScoreCompound(all_sample_peaks, Head(entries), tol_h, tol_c)
             rest == PerType(LAMBDA t : Remaining(all_sample_peaks[t], sc.found[t]))
         IN <<sc>> \o ScoresFromSharing(rest, Tail(entries), tol_h, tol_c)

\* the per-compound computations of one call, in db_entries order
RECURSIVE ScoresFrom(_, _, _, _)
ScoresFrom(all_sample_peaks, entries, tol_h, tol_c) ==
    IF entries = <<>> THEN <<>>
    ELSE <<ScoreCompound(all_sample_peaks, Head(entries), tol_h, tol_c)>>
         \o ScoresFrom(all_sample_peaks, Tail(entries), tol_h, tol_c)

Scores(hsqc, cosy, hmbc, entries, tol_h, tol_c) ==
    ScoresFrom(AllSamplePeaks(hsqc, cosy, hmbc), entries, tol_h, tol_c)

\* overall_matched_<type>_indices at the end of the loop over db_entries
Overall(scores, nmr_type) ==
    UNION {scores[k].found[nmr_type] : k \in 1..Len(scores)}

\* whether analyze_mixture raises: a parse of a sample or compound text does
AnalyzeRaises(hsqc, cosy, hmbc, entries) ==
    \/ ParseRaises(hsqc) \/ ParseRaises(cosy) \/ ParseRaises(hmbc)
    \/ \E k \in 1..Len(entries) : \E t \in NmrTypes :
          ParseRaises(PeaksField(entries[k], t))

Raised == [raised |-> "ValueError"]

\* the dictionary analyze_mixture builds from the per-compound computations
Report(all_sample_peaks, scores) ==
    [detected_entries |-> Sorted(Results(scores)),
     unmatched_sample_peaks |->
        PerType(LAMBDA t : UnmatchedFrom(all_sample_peaks[t], 1, Overall(scores, t)))]

\* the dictionary analyze_mixture returns (the plots beside it are images)
analyze_mixture(hsqc, cosy, hmbc, entries, tol_h, tol_c) ==
    IF AnalyzeRaises(hsqc, cosy, hmbc, entries) THEN Raised
    ELSE Report(AllSamplePeaks(hsqc, cosy, hmbc),
                Scores(hsqc, cosy, hmbc, entries, tol_h, tol_c))

(***************************************************************************)
(* The storage functions of db_operations.py.  A stored document is        *)
(* [_id, name, hsqc_peaks, cosy_peaks, hmbc_peaks]; names are numbers,     *)
(* ordered as MongoDB orders the strings they stand for.                   *)
(***************************************************************************)
RECURSIVE SumOf(_)
SumOf(numerals) == IF numerals = <<>> THEN 0 ELSE Head(numerals) + SumOf(Tail(numerals))

\* _mid(s): sum(map(float, s.split('-'))) / 2.0 when s has a hyphen, however
\* many parts the split gives, else float(s); None stands for ValueError
Mid(s) ==
    IF s.k = "range" THEN s.a + s.b
    ELSE IF s.k = "hyphens" THEN SumOf(s.parts)
    ELSE FloatOfStr(s)

\* the peaks one line appends in parse_peaks_string: none or one [x, y]
ParsePeaksLine(parts) ==
    IF Len(parts) # 2 THEN <<>>
    ELSE IF Mid(parts[1]) = None \/ Mid(parts[2]) = None THEN <<>>
    ELSE <<Pair(Mid(parts[1]), Mid(parts[2]))>>

RECURSIVE ParsePeaksLines(_)
ParsePeaksLines(lines) ==
    IF lines = <<>> THEN <<>>
    ELSE ParsePeaksLine(Head(lines)) \o ParsePeaksLines(Tail(lines))

\* parse_peaks_string(peaks_str): a list of lists of two floats
parse_peaks_string(peaks_str) == List(ParsePeaksLines(peaks_str.lines))

\* the conversion add_entry and update_entry apply to one peaks field
StoredPeaks(value) == IF value.form = "str" THEN parse_peaks_string(value) ELSE value

\* the document add_entry inserts for data, under a fresh _id
add_entry(data, id) ==
    [_id |-> id, name |-> data.name,
     hsqc_peaks |-> StoredPeaks(data.hsqc_peaks),
     cosy_peaks |-> StoredPeaks(data.cosy_peaks),
     hmbc_peaks |-> StoredPeaks(data.hmbc_peaks)]

\* the document after update_entry's $set of data (every field but _id)
update_entry(doc, data) == add_entry(data, doc._id)

\* database.py: the peaks one line appends in _parse_peak_string_to_list.  The
\* first token is read by float() alone; the second is the midpoint of a range
\* of two parts, else float() of the whole token; a line of more than two
\* tokens gives float() of its first two.
ParsePeakStringLine(parts) ==
    IF Len(parts) = 2
    THEN LET p1 == FloatOfStr(parts[1])
             p2 == IF parts[2].k = "range" THEN parts[2].a + parts[2].b
                   ELSE FloatOfStr(parts[2])
         IN IF p1 = None \/ p2 = None THEN <<>> ELSE <<Pair(p1, p2)>>
    ELSE IF Len(parts) > 2
    THEN (IF FloatOfStr(parts[1]) = None \/ FloatOfStr(parts[2]) = None THEN <<>>
          ELSE <<Pair(FloatOfStr(parts[1]), FloatOfStr(parts[2]))>>)
    ELSE <<>>

RECURSIVE ParsePeakStringLines(_)
ParsePeakStringLines(lines) ==
    IF lines = <<>> THEN <<>>
    ELSE ParsePeakStringLine(Head(lines)) \o ParsePeakStringLines(Tail(lines))

\* _parse_peak_string_to_list(peak_string): a list of lists of two floats
parse_peak_string_to_list(peak_string) == List(ParsePeakStringLines(peak_string.lines))

\* find().sort("name", 1): the orders of the documents that ascend by name
\* (MongoDB promises no order among documents of equal name)
SortedByName(docs) ==
    {[k \in 1..Len(docs) |-> docs[perm[k]]] :
        perm \in {perm \in [1..Len(docs) -> 1..Len(docs)] :
                    /\ \A a, b \in 1..Len(docs) : a # b => perm[a] # perm[b]
                    /\ \A a, b \in 1..Len(docs) :
                          a < b => docs[perm[a]].name <= docs[perm[b]].name}}

\* get_all_entries(): one of those orders
get_all_entries(docs) == SortedByName(docs)

(***************************************************************************)
(* compare_peaks (compare_nmr_peaks.py 21-116).  Here a numeric token of   *)
(* the text stands for its own value in the unit of its column: 0.01 ppm   *)
(* in the 1H column, 0.1 ppm in the 13C column.  A row of a frame is a     *)
(* record: the columns '1H', '13C', 'Intensity' are the fields H, C,       *)
(* Intensity, and '1H_calibrated', '13C_calibrated' are H_calibrated,      *)
(* C_calibrated; index is the row label.  A row of db_df is                *)
(* [database_id, chemical_shift_x, chemical_shift_y].  Lines have at most  *)
(* three tokens, so read_csv never meets a line longer than its names.     *)
(***************************************************************************)
delta_1H == 6

delta_13C == 8

methanol_1H_ref == 331

methanol_13C_ref == 491

\* the token "NaN", one of the strings read_csv reads as a missing value
NaTok == [k |-> "na"]

\* the missing value NaN in a cell of a frame
NaN == [k |-> "nan"]

\* the cell of column c that read_csv makes of a line: a missing field and a
\* missing-value token are NaN, any other token is kept (a number, or a string
\* when its column holds a token that is not a number)
Cell(line, c) ==
    IF c > Len(line) THEN NaN
    ELSE IF line[c].k = "na" THEN NaN
    ELSE line[c]

\* the rows read_csv makes of the lines from position i on, labelled from label:
\* blank lines are skipped
RECURSIVE ReadRows(_, _, _)
ReadRows(lines, i, label) ==
    IF i > Len(lines) THEN <<>>
    ELSE IF lines[i] = <<>> THEN ReadRows(lines, i + 1, label)
    ELSE <<[index |-> label, H |-> Cell(lines[i], 1), C |-> Cell(lines[i], 2),
            Intensity |-> Cell(lines[i], 3)]>>
         \o ReadRows(lines, i + 1, label + 1)

\* pd.read_csv(StringIO(s), delim_whitespace=True, header=None, names=[...])
read_csv(text) == ReadRows(text.lines, 1, 0)

\* exp_df.dropna(subset=['1H', '13C'])
dropna(rows) == SelectSeq(rows, LAMBDA r : r.H # NaN /\ r.C # NaN)

\* column.astype(float) raises ValueError: a cell holds a string that is no number
AstypeRaises(rows, column) == \E i \in 1..Len(rows) : rows[i][column].k = "word"

\* the labels of the rows whose Intensity is not NaN
WithIntensity(rows) == {i \in 1..Len(rows) : rows[i].Intensity # NaN}

\* exp_df['Intensity'].idxmax(): the first of the rows of greatest intensity,
\* NaN skipped
IdxMax(rows) ==
    CHOOSE i \in WithIntensity(rows) :
        /\ \A k \in WithIntensity(rows) : rows[k].Intensity.v <= rows[i].Intensity.v
        /\ \A k \in WithIntensity(rows) :
              rows[k].Intensity.v = rows[i].Intensity.v => i <= k

\* a variant of Calibrated that leaves the 13C column as it is
CalibratedProtonOnly(rows) ==
    LET most_intense_peak == rows[IdxMax(rows)]
        calibration_shift_1H == methanol_1H_ref - most_intense_peak.H.v
    IN [i \in 1..Len(rows) |->
           [index |-> rows[i].index, H |-> rows[i].H.v, C |-> rows[i].C.v,
            Intensity |-> rows[i].Intensity,
            H_calibrated |-> rows[i].H.v + calibration_shift_1H,
            C_calibrated |-> rows[i].C.v]]

\* exp_df after the calibration by its most intense peak (lines 61-69)
Calibrated(rows) ==
    LET most_intense_peak == rows[IdxMax(rows)]
        calibration_shift_1H == methanol_1H_ref - most_intense_peak.H.v
        calibration_shift_13C == methanol_13C_ref - most_intense_peak.C.v
    IN [i \in 1..Len(rows) |->
           [index |-> rows[i].index, H |-> rows[i].H.v, C |-> rows[i].C.v,
            Intensity |-> rows[i].Intensity,
            H_calibrated |-> rows[i].H.v + calibration_shift_1H,
            C_calibrated |-> rows[i].C.v + calibration_shift_13C]]

\* a variant of peak_matches that accepts a fit on either axis
peak_matches_either(ref_peak, experimental_peaks) ==
    \E i \in 1..Len(experimental_peaks) :
        \/ Abs(ref_peak.chemical_shift_x - experimental_peaks[i].H_calibrated) <= delta_1H
        \/ Abs(ref_peak.chemical_shift_y - experimental_peaks[i].C_calibrated) <= delta_13C

\* peak_matches(ref_peak, experimental_peaks)
peak_matches(ref_peak, experimental_peaks) ==
    \E i \in 1..Len(experimental_peaks) :
        /\ Abs(ref_peak.chemical_shift_x - experimental_peaks[i].H_calibrated) <= delta_1H
        /\ Abs(ref_peak.chemical_shift_y - experimental_peaks[i].C_calibrated) <= delta_13C

\* group: the rows of the table of one database_id, in table order
Group(table, compound_id) == SelectSeq(table, LAMBDA r : r.database_id = compound_id)

\* matched_peaks after the loop over the rows of a group
MatchedPeaks(group, experimental_peaks) ==
    Cardinality({j \in 1..Len(group) : peak_matches(group[j], experimental_peaks)})

\* f"{match_percentage:.2f}%", as a number of hundredths of a percent
PercentString(matched_peaks, total_peaks) ==
    (20000 * matched_peaks + total_peaks) \div (2 * total_peaks)

\* a variant of Classify that asks for more than 50 percent
ClassifyStrict(compound_id, matched_peaks, total_peaks) ==
    IF matched_peaks = total_peaks
    THEN [fully |-> <<compound_id>>, partial |-> <<>>]
    ELSE IF matched_peaks > 0 /\ 100 * matched_peaks > 50 * total_peaks
    THEN [fully |-> <<>>,
          partial |-> <<(<<compound_id, <<matched_peaks, total_peaks>>,
                           PercentString(matched_peaks, total_peaks)>>)>>]
    ELSE [fully |-> <<>>, partial |-> <<>>]

\* what one compound appends to fully_matched and partially_matched (lines 104-110)
Classify(compound_id, matched_peaks, total_peaks) ==
    IF matched_peaks = total_peaks
    THEN [fully |-> <<compound_id>>, partial |-> <<>>]
    ELSE IF matched_peaks > 0 /\ 100 * matched_peaks >= 50 * total_peaks
    THEN [fully |-> <<>>,
          partial |-> <<(<<compound_id, <<matched_peaks, total_peaks>>,
                           PercentString(matched_peaks, total_peaks)>>)>>]
    ELSE [fully |-> <<>>, partial |-> <<>>]

\* the loop over db_df.groupby('database_id'): the ids in ascending order
RECURSIVE CompareGroups(_, _, _)
CompareGroups(table, ids, experimental_peaks) ==
    IF ids = {} THEN [fully |-> <<>>, partial |-> <<>>]
    ELSE LET compound_id == CHOOSE c \in ids : \A d \in ids : c <= d
             group == Group(table, compound_id)
             here == Classify(compound_id, MatchedPeaks(group, experimental_peaks),
                              Len(group))
             rest == CompareGroups(table, ids \ {compound_id}, experimental_peaks)
         IN [fully |-> here.fully \o rest.fully, partial |-> here.partial \o rest.partial]

\* the early return of line 32
NoPeaksProvided ==
    [fully |-> <<>>, partial |-> <<>>, message |-> "No HSQC peaks provided for analysis."]

\* a variant of IsBlank that takes only the empty string for blank
IsBlankEmptyOnly(text) == text.lines = <<>>

\* not hsqc_peaks_str.strip()
IsBlank(text) == \A i \in 1..Len(text.lines) : text.lines[i] = <<>>

\* exp_df at line 54: the rows read and not dropped
Kept(text) == dropna(read_csv(text))

\* an astype(float) of lines 54-57 raises ValueError
ConversionRaises(text) ==
    \/ AstypeRaises(Kept(text), "Intensity")
    \/ AstypeRaises(Kept(text), "H")
    \/ AstypeRaises(Kept(text), "C")

\* line 61 raises: no row has an intensity, so idxmax gives no label of a row
\* (KeyError from .loc, or ValueError from idxmax, by the pandas version)
AnchorRaises(text) == Kept(text) # <<>> /\ WithIntensity(Kept(text)) = {}

RaisedNoLabel == [raised |-> "KeyError or ValueError"]

CompareRaises(text) == ~IsBlank(text) /\ (ConversionRaises(text) \/ AnchorRaises(text))

\* exp_df at line 79, when compare_peaks gets there: calibrated unless empty
Frame(text) == IF Kept(text) = <<>> THEN <<>> ELSE Calibrated(Kept(text))

\* compare_peaks(hsqc_peaks_str) with the default tolerances, reading table
compare_peaks(text, table) ==
    IF IsBlank(text) THEN NoPeaksProvided
    ELSE IF ConversionRaises(text) THEN Raised
    ELSE IF AnchorRaises(text) THEN RaisedNoLabel
    ELSE CompareGroups(table, {table[j].database_id : j \in 1..Len(table)}, Frame(text))

(***************************************************************************)
(* Bounded inputs.                                                         *)
(***************************************************************************)
\* all sequences over S of length at most n
SeqsUpTo(S, n) == UNION {[1..k -> S] : k \in 0..n}

\* longest sample peak list and database peak list handed to find_compound_matches
MaxMatchSample == 2

MaxMatchRef == 2

\* the shifts, in half units, of those peaks on each axis, and the tolerances
MatchShifts1 == {0, 1, 2}

MatchShifts2 == {0, 1}

MatchTols == {0, 1}

MatchPeaks(nmr_type) ==
    {PeakDict(nmr_type, x, y, 2) : x \in MatchShifts1, y \in MatchShifts2}

NoResult == [none |-> TRUE]

\* no call of parse_peak_data is under way
NoParseCall ==
    /\ arg_peak_data = Str(<<>>)
    /\ arg_nmr_type = "hsqc"

\* no call of a storage parser is under way
NoStoreParse ==
    /\ db_ops_peaks = NoResult
    /\ database_peaks = NoResult

\* no request is under way; the connection and the data file play no part
NoRequest ==
    /\ request_pc = <<>>
    /\ connected = FALSE
    /\ initial_data = <<>>

\* no call of compare_peaks is under way
NoCompareCall ==
    /\ hsqc_peaks_str = Str(<<>>)
    /\ db_df = <<>>
    /\ exp_df = <<>>

(***************************************************************************)
(* SpecMatch: one call of find_compound_matches on every bounded input.    *)
(***************************************************************************)
InitMatch ==
    /\ pc = "call"
    /\ \E nmr_type \in {"hsqc", "cosy"} :
          /\ sample_peaks \in SeqsUpTo(MatchPeaks(nmr_type), MaxMatchSample)
          /\ db_peaks \in SeqsUpTo(MatchPeaks(nmr_type), MaxMatchRef)
    /\ tolerance_h \in MatchTols
    /\ tolerance_c \in MatchTols
    /\ matches = <<>>
    /\ pairs = <<>>
    /\ sample_hsqc = Str(<<>>)
    /\ sample_cosy = Str(<<>>)
    /\ sample_hmbc = Str(<<>>)
    /\ db_entries = <<>>
    /\ result = NoResult
    /\ scored = <<>>
    /\ entries_collection = <<>>
    /\ NoParseCall
    /\ NoCompareCall
    /\ NoStoreParse
    /\ NoRequest

\* a variant of FindCompoundMatches that removes each matched peak from the
\* caller's sample list instead of recording its index
FindCompoundMatchesConsuming ==
    /\ pc = "call"
    /\ pc' = "done"
    /\ matches' = find_compound_matches(sample_peaks, db_peaks, tolerance_h, tolerance_c)
    /\ pairs' = MatchRun(sample_peaks, db_peaks, tolerance_h, tolerance_c).pairs
    /\ sample_peaks' =
          LET matched == MatchRun(sample_peaks, db_peaks, tolerance_h, tolerance_c).matched
              keep == {i \in 1..Len(sample_peaks) : i \notin matched}
              nth(n) == CHOOSE i \in keep : Cardinality({k \in keep : k < i}) = n - 1
          IN [n \in 1..Cardinality(keep) |-> sample_peaks[nth(n)]]
    /\ UNCHANGED <<db_peaks, sample_hsqc, sample_cosy, sample_hmbc,
                   db_entries, tolerance_h, tolerance_c, result, scored,
                   entries_collection, arg_peak_data, arg_nmr_type, hsqc_peaks_str, db_df,
                   exp_df, db_ops_peaks, database_peaks, request_pc, connected,
                   initial_data>>

FindCompoundMatches ==
    /\ pc = "call"
    /\ pc' = "done"
    /\ matches' = find_compound_matches(sample_peaks, db_peaks, tolerance_h, tolerance_c)
    /\ pairs' = MatchRun(sample_peaks, db_peaks, tolerance_h, tolerance_c).pairs
    /\ UNCHANGED <<sample_peaks, db_peaks, sample_hsqc, sample_cosy, sample_hmbc,
                   db_entries, tolerance_h, tolerance_c, result, scored,
                   entries_collection, arg_peak_data, arg_nmr_type, hsqc_peaks_str, db_df,
                   exp_df,
                   db_ops_peaks, database_peaks, request_pc, connected, initial_data>>

NextMatch == FindCompoundMatches

SpecMatch == InitMatch /\ [][NextMatch]_vars

(***************************************************************************)
(* Spec: one call of analyze_mixture with the default tolerances, on       *)
(* every bounded input of two families: one compound with peaks of all     *)
(* three spectrum types, and a database of several compounds whose peaks   *)
(* and sample are of one spectrum type.  One token unit is 0.1 ppm, so     *)
(* the default tolerances 0.05 and 0.50 are 1 and 10 half units.           *)
(***************************************************************************)
TOLERANCE_H_MATCH == 1

TOLERANCE_C_MATCH == 10

\* most peak lines of the single compound, over its three spectra
MaxCompoundLines == 6

\* most peak lines of the sample analysed against the single compound
MaxScoreSample == 1

\* most compounds of a database, most lines of each, most lines of the sample
MaxEntries == 2

MaxMixLines == 2

MaxMixSample == 2

\* the lines of a sample text: "0 0" and "2 2"
SampleLines == {<<NumTok(0), NumTok(0)>>, <<NumTok(2), NumTok(2)>>}

\* the lines of a compound text: "0-1 0", half a tolerance unit from "0 0", and "2 2"
CompoundLines == {<<RangeTok(0, 1), NumTok(0)>>, <<NumTok(2), NumTok(2)>>}

\* the triples of texts (hsqc, cosy, hmbc) over lines L with at most n lines in all
TextTriples(L, n) ==
    UNION {[1..l[1] -> L] \X [1..l[2] -> L] \X [1..l[3] -> L] :
              l \in {l \in (0..n) \X (0..n) \X (0..n) : l[1] + l[2] + l[3] <= n}}

\* the triple of texts whose only non-empty text, of type nmr_type, is lines
OnlyType(nmr_type, lines) ==
    <<IF nmr_type = "hsqc" THEN lines ELSE <<>>,
      IF nmr_type = "cosy" THEN lines ELSE <<>>,
      IF nmr_type = "hmbc" THEN lines ELSE <<>>>>

\* the compound dict with the given id and peak texts
Compound(id, texts) ==
    [id |-> id, hsqc_peaks |-> Str(texts[1]), cosy_peaks |-> Str(texts[2]),
     hmbc_peaks |-> Str(texts[3])]

InitInputs(sample_texts, compound_texts) ==
    /\ pc = "call"
    /\ sample_hsqc = Str(sample_texts[1])
    /\ sample_cosy = Str(sample_texts[2])
    /\ sample_hmbc = Str(sample_texts[3])
    /\ db_entries = [k \in 1..Len(compound_texts) |-> Compound(k, compound_texts[k])]
    /\ tolerance_h = TOLERANCE_H_MATCH
    /\ tolerance_c = TOLERANCE_C_MATCH
    /\ result = NoResult
    /\ scored = <<>>
    /\ sample_peaks = <<>>
    /\ db_peaks = <<>>
    /\ matches = <<>>
    /\ pairs = <<>>
    /\ entries_collection = <<>>
    /\ NoParseCall
    /\ NoCompareCall
    /\ NoStoreParse
    /\ NoRequest

InitScore ==
    \E sample_texts \in TextTriples(SampleLines, MaxScoreSample) :
    \E texts \in TextTriples(CompoundLines, MaxCompoundLines) :
        InitInputs(sample_texts, <<texts>>)

InitMix ==
    \E nmr_type \in NmrTypes :
    \E sample_lines \in SeqsUpTo(SampleLines, MaxMixSample) :
    \E compounds \in SeqsUpTo(SeqsUpTo(CompoundLines, MaxMixLines), MaxEntries) :
        InitInputs(OnlyType(nmr_type, sample_lines),
                   [k \in 1..Len(compounds) |-> OnlyType(nmr_type, compounds[k])])

Init == InitScore \/ InitMix

AnalyzeMixture ==
    /\ pc = "call"
    /\ pc' = "done"
    /\ result' = analyze_mixture(sample_hsqc, sample_cosy, sample_hmbc, db_entries,
                                 tolerance_h, tolerance_c)
    /\ scored' = IF AnalyzeRaises(sample_hsqc, sample_cosy, sample_hmbc, db_entries)
                 THEN <<>>
                 ELSE Scores(sample_hsqc, sample_cosy, sample_hmbc, db_entries,
                             tolerance_h, tolerance_c)
    /\ UNCHANGED <<sample_peaks, db_peaks, sample_hsqc, sample_cosy, sample_hmbc,
                   db_entries, tolerance_h, tolerance_c, matches, pairs,
                   entries_collection, arg_peak_data, arg_nmr_type, hsqc_peaks_str, db_df,
                   exp_df,
                   db_ops_peaks, database_peaks, request_pc, connected, initial_data>>

Next == AnalyzeMixture

Spec == Init /\ [][Next]_vars

(***************************************************************************)
(* SpecTol: one call of analyze_mixture on one compound, with tolerances   *)
(* given by the caller, negative ones included, and peaks whose two shifts *)
(* differ, so that the axes and the two tolerances can be told apart.      *)
(***************************************************************************)
MaxTolSample == 2

MaxTolLines == 2

\* the lines of a sample text: "0 0" and "0 2"
TolSampleLines == {<<NumTok(0), NumTok(0)>>, <<NumTok(0), NumTok(2)>>}

\* the lines of a compound text: "0 0" and "2 0"
TolCompoundLines == {<<NumTok(0), NumTok(0)>>, <<NumTok(2), NumTok(0)>>}

\* the pairs (tolerance_h, tolerance_c) of the call: the defaults, and each with
\* one negative tolerance
Tolerances ==
    {<<TOLERANCE_H_MATCH, TOLERANCE_C_MATCH>>, <<-1, TOLERANCE_C_MATCH>>,
     <<TOLERANCE_H_MATCH, -1>>}

InitTol ==
    \E sample_texts \in TextTriples(TolSampleLines, MaxTolSample) :
    \E texts \in TextTriples(TolCompoundLines, MaxTolLines) :
    \E tols \in Tolerances :
        /\ pc = "call"
        /\ sample_hsqc = Str(sample_texts[1])
        /\ sample_cosy = Str(sample_texts[2])
        /\ sample_hmbc = Str(sample_texts[3])
        /\ db_entries = <<Compound(1, texts)>>
        /\ tolerance_h = tols[1]
        /\ tolerance_c = tols[2]
        /\ result = NoResult
        /\ scored = <<>>
        /\ sample_peaks = <<>>
        /\ db_peaks = <<>>
        /\ matches = <<>>
        /\ pairs = <<>>
        /\ entries_collection = <<>>
        /\ NoParseCall
        /\ NoCompareCall
        /\ NoStoreParse
        /\ NoRequest

NextTol == AnalyzeMixture

SpecTol == InitTol /\ [][NextTol]_vars

(***************************************************************************)
(* SpecFrame: one call of find_compound_matches on lists of peak dicts, or *)
(* one call of analyze_mixture on the inputs of SpecTol; what the call     *)
(* leaves of its arguments is read after it.                               *)
(***************************************************************************)
MaxFramePeaks == 2

InitFrameMatch ==
    /\ pc = "call"
    /\ \E nmr_type \in {"hsqc", "cosy"} :
          /\ sample_peaks \in SeqsUpTo(MatchPeaks(nmr_type), MaxFramePeaks)
          /\ db_peaks \in SeqsUpTo(MatchPeaks(nmr_type), MaxFramePeaks)
    /\ tolerance_h = TOLERANCE_H_MATCH
    /\ tolerance_c = TOLERANCE_C_MATCH
    /\ matches = <<>>
    /\ pairs = <<>>
    /\ sample_hsqc = Str(<<>>)
    /\ sample_cosy = Str(<<>>)
    /\ sample_hmbc = Str(<<>>)
    /\ db_entries = <<>>
    /\ result = NoResult
    /\ scored = <<>>
    /\ entries_collection = <<>>
    /\ NoParseCall
    /\ NoCompareCall
    /\ NoStoreParse
    /\ NoRequest

InitFrame == InitFrameMatch \/ InitTol

NextFrame == FindCompoundMatches \/ AnalyzeMixture

SpecFrame == InitFrame /\ [][NextFrame]_vars

(***************************************************************************)
(* SpecStore: compounds are stored through add_entry and update_entry from *)
(* peak text, then POST /api/analyze (analyze_nmr_route) analyses a sample *)
(* against get_all_entries() with the default tolerances.                  *)
(***************************************************************************)
\* most stored documents, most peak lines of a submitted compound and of a sample
MaxStored == 2

MaxStoreLines == 2

MaxStoreSample == 2

Names == {1, 2}

\* the JSON bodies the structure form posts: a name and three peak texts
EntryData ==
    {[name |-> name, hsqc_peaks |-> Str(texts[1]), cosy_peaks |-> Str(texts[2]),
      hmbc_peaks |-> Str(texts[3])] :
        name \in Names, texts \in TextTriples(CompoundLines, MaxStoreLines)}

InitStore ==
    /\ pc = "idle"
    /\ entries_collection = <<>>
    /\ sample_hsqc = Str(<<>>)
    /\ sample_cosy = Str(<<>>)
    /\ sample_hmbc = Str(<<>>)
    /\ db_entries = <<>>
    /\ tolerance_h = TOLERANCE_H_MATCH
    /\ tolerance_c = TOLERANCE_C_MATCH
    /\ result = NoResult
    /\ scored = <<>>
    /\ sample_peaks = <<>>
    /\ db_peaks = <<>>
    /\ matches = <<>>
    /\ pairs = <<>>
    /\ NoParseCall
    /\ NoCompareCall
    /\ NoStoreParse
    /\ NoRequest

AddEntry ==
    /\ pc = "idle"
    /\ Len(entries_collection) < MaxStored
    /\ \E data \in EntryData :
          entries_collection' =
              Append(entries_collection, add_entry(data, Len(entries_collection) + 1))
    /\ UNCHANGED <<pc, sample_peaks, db_peaks, sample_hsqc, sample_cosy, sample_hmbc,
                   db_entries, tolerance_h, tolerance_c, matches, pairs, result, scored,
                   arg_peak_data, arg_nmr_type, hsqc_peaks_str, db_df, exp_df,
                   db_ops_peaks, database_peaks, request_pc, connected, initial_data>>

UpdateEntry ==
    /\ pc = "idle"
    /\ \E k \in 1..Len(entries_collection) : \E data \in EntryData :
          entries_collection' =
              [entries_collection EXCEPT ![k] = update_entry(entries_collection[k], data)]
    /\ UNCHANGED <<pc, sample_peaks, db_peaks, sample_hsqc, sample_cosy, sample_hmbc,
                   db_entries, tolerance_h, tolerance_c, matches, pairs, result, scored,
                   arg_peak_data, arg_nmr_type, hsqc_peaks_str, db_df, exp_df,
                   db_ops_peaks, database_peaks, request_pc, connected, initial_data>>

\* analyze_nmr_route; with no stored entry it answers 404 and analyses nothing
AnalyzeNmrRoute ==
    /\ pc = "idle"
    /\ entries_collection # <<>>
    /\ pc' = "done"
    /\ \E all_database_entries \in get_all_entries(entries_collection) :
       \E texts \in TextTriples(SampleLines, MaxStoreSample) :
          /\ db_entries' = all_database_entries
          /\ sample_hsqc' = Str(texts[1])
          /\ sample_cosy' = Str(texts[2])
          /\ sample_hmbc' = Str(texts[3])
          /\ result' = analyze_mixture(Str(texts[1]), Str(texts[2]), Str(texts[3]),
                                       all_database_entries, tolerance_h, tolerance_c)
          /\ scored' = Scores(Str(texts[1]), Str(texts[2]), Str(texts[3]),
                              all_database_entries, tolerance_h, tolerance_c)
    /\ UNCHANGED <<sample_peaks, db_peaks, tolerance_h, tolerance_c, matches, pairs,
                   entries_collection, arg_peak_data, arg_nmr_type, hsqc_peaks_str, db_df,
                   exp_df,
                   db_ops_peaks, database_peaks, request_pc, connected, initial_data>>

NextStore == AddEntry \/ UpdateEntry \/ AnalyzeNmrRoute

SpecStore == InitStore /\ [][NextStore]_vars

(***************************************************************************)
(* SpecInit: GET /api/entries requests served concurrently (Flask serves   *)
(* each request in a thread of its own).  A request runs the               *)
(* before_request hook initialize_db, then get_entries_route, which calls  *)
(* insert_initial_data_from_json when it counts no document.  A step of a  *)
(* request is one access to the shared collection or connection; what a    *)
(* request computes on its own between two accesses belongs to the step    *)
(* that follows.  A stored document is [_id, name, hsqc_peaks, cosy_peaks, *)
(* hmbc_peaks]; an entry of nmr_database.json is [name, id], id being its  *)
(* "_id" or NoId when it has none, and its name is its place in the file.  *)
(***************************************************************************)
MaxRequests == 2

MaxInitial == 2

NoId == [none |-> TRUE]

\* the data files: nmr_database.json absent or empty (no entry), or with up to
\* MaxInitial entries, each with an "_id" of its own or without
DataFiles ==
    UNION {{[i \in 1..n |-> [name |-> i, id |-> IF i \in S THEN [fixed |-> i] ELSE NoId]] :
               S \in SUBSET (1..n)} : n \in 0..MaxInitial}

\* a document a user added before, under an _id that no file entry has
ExistingDocument ==
    [_id |-> [added |-> 1], name |-> 0, hsqc_peaks |-> List(<<>>),
     cosy_peaks |-> List(<<>>), hmbc_peaks |-> List(<<>>)]

\* the document built from entry i of the file by request r: a fresh uuid4 when
\* the entry has no "_id", and [] for the peak keys it lacks
InitialDocument(entry, r, i) ==
    [_id |-> IF entry.id = NoId THEN [uuid |-> <<r, i>>] ELSE entry.id,
     name |-> entry.name, hsqc_peaks |-> List(<<>>),
     cosy_peaks |-> List(<<>>), hmbc_peaks |-> List(<<>>)]

\* entries_collection.count_documents({})
count_documents(docs) == Len(docs)

\* entries_collection.insert_many(initial_data), ordered: documents are inserted
\* one by one up to the first whose _id the collection already holds, at which
\* the call raises and the caller logs the exception
RECURSIVE insert_many(_, _)
insert_many(docs, batch) ==
    IF batch = <<>> THEN docs
    ELSE IF \E k \in 1..Len(docs) : docs[k]._id = Head(batch)._id THEN docs
    ELSE insert_many(Append(docs, Head(batch)), Tail(batch))

InitInit ==
    /\ pc = "serving"
    /\ request_pc = [r \in 1..MaxRequests |-> "before_request"]
    /\ connected = FALSE
    /\ initial_data \in DataFiles
    /\ entries_collection \in {<<>>, <<ExistingDocument>>}
    /\ sample_hsqc = Str(<<>>)
    /\ sample_cosy = Str(<<>>)
    /\ sample_hmbc = Str(<<>>)
    /\ db_entries = <<>>
    /\ tolerance_h = TOLERANCE_H_MATCH
    /\ tolerance_c = TOLERANCE_C_MATCH
    /\ result = NoResult
    /\ scored = <<>>
    /\ sample_peaks = <<>>
    /\ db_peaks = <<>>
    /\ matches = <<>>
    /\ pairs = <<>>
    /\ NoParseCall
    /\ NoCompareCall
    /\ NoStoreParse

\* initialize_db -> initialize_db_connection: nothing when the collection object
\* exists, else a connection attempt that succeeds or fails
InitializeDb(r) ==
    /\ request_pc[r] = "before_request"
    /\ connected' \in (IF connected THEN {TRUE} ELSE BOOLEAN)
    /\ request_pc' = [request_pc EXCEPT ![r] = "route"]
    /\ UNCHANGED <<pc, sample_peaks, db_peaks, sample_hsqc, sample_cosy, sample_hmbc,
                   db_entries, tolerance_h, tolerance_c, matches, pairs, result, scored,
                   entries_collection, arg_peak_data, arg_nmr_type, hsqc_peaks_str, db_df,
                   exp_df, db_ops_peaks, database_peaks, initial_data>>

\* get_entries_route 52-59: 500 without a collection, else the count that
\* decides whether insert_initial_data_from_json is called
RouteCount(r) ==
    /\ request_pc[r] = "route"
    /\ request_pc' = [request_pc EXCEPT ![r] =
                         IF ~connected THEN "done"
                         ELSE IF count_documents(entries_collection) = 0 THEN "insert"
                         ELSE "find"]
    /\ UNCHANGED <<pc, sample_peaks, db_peaks, sample_hsqc, sample_cosy, sample_hmbc,
                   db_entries, tolerance_h, tolerance_c, matches, pairs, result, scored,
                   entries_collection, arg_peak_data, arg_nmr_type, hsqc_peaks_str, db_df,
                   exp_df, db_ops_peaks, database_peaks, connected, initial_data>>

\* insert_initial_data_from_json 111-115: its own count of the collection
InsertCount(r) ==
    /\ request_pc[r] = "insert"
    /\ request_pc' = [request_pc EXCEPT ![r] =
                         IF count_documents(entries_collection) = 0 THEN "insert_many"
                         ELSE "find"]
    /\ UNCHANGED <<pc, sample_peaks, db_peaks, sample_hsqc, sample_cosy, sample_hmbc,
                   db_entries, tolerance_h, tolerance_c, matches, pairs, result, scored,
                   entries_collection, arg_peak_data, arg_nmr_type, hsqc_peaks_str, db_df,
                   exp_df, db_ops_peaks, database_peaks, connected, initial_data>>

\* insert_initial_data_from_json 116-152: the file is read, the documents are
\* built and, if there is any, handed to insert_many
InsertMany(r) ==
    /\ request_pc[r] = "insert_many"
    /\ entries_collection' =
          insert_many(entries_collection,
                      [i \in 1..Len(initial_data) |-> InitialDocument(initial_data[i], r, i)])
    /\ request_pc' = [request_pc EXCEPT ![r] = "find"]
    /\ UNCHANGED <<pc, sample_peaks, db_peaks, sample_hsqc, sample_cosy, sample_hmbc,
                   db_entries, tolerance_h, tolerance_c, matches, pairs, result, scored,
                   arg_peak_data, arg_nmr_type, hsqc_peaks_str, db_df,
                   exp_df, db_ops_peaks, database_peaks, connected, initial_data>>

\* get_entries_route 61-82: the query and the response
FindEntries(r) ==
    /\ request_pc[r] = "find"
    /\ request_pc' = [request_pc EXCEPT ![r] = "done"]
    /\ UNCHANGED <<pc, sample_peaks, db_peaks, sample_hsqc, sample_cosy, sample_hmbc,
                   db_entries, tolerance_h, tolerance_c, matches, pairs, result, scored,
                   entries_collection, arg_peak_data, arg_nmr_type, hsqc_peaks_str, db_df,
                   exp_df, db_ops_peaks, database_peaks, connected, initial_data>>

NextInit ==
    \E r \in 1..MaxRequests :
        \/ InitializeDb(r)
        \/ RouteCount(r)
        \/ InsertCount(r)
        \/ InsertMany(r)
        \/ FindEntries(r)

SpecInit == InitInit /\ [][NextInit]_vars

(***************************************************************************)
(* SpecParse: one call of parse_peak_data on every text of bounded length  *)
(* over a set of well-formed and malformed lines.                          *)
(***************************************************************************)
MaxParseLines == 2

\* "", "1 1", "0-1 1", "1 1 3", "0-1 0-1 1", "1 1 .", ". 1", "1 1.1.1",
\* "1 1 1.1.1", "1 1-1-1", "w 1", "1 1 w", "1", "1 1 1 1"
ParseTextLines ==
    {<<>>,
     <<NumTok(1), NumTok(1)>>,
     <<RangeTok(0, 1), NumTok(1)>>,
     <<NumTok(1), NumTok(1), NumTok(3)>>,
     <<RangeTok(0, 1), RangeTok(0, 1), NumTok(1)>>,
     <<NumTok(1), NumTok(1), DotTok>>,
     <<DotTok, NumTok(1)>>,
     <<NumTok(1), MultiDotTok>>,
     <<NumTok(1), NumTok(1), MultiDotTok>>,
     <<NumTok(1), MultiHyphenTok>>,
     <<WordTok, NumTok(1)>>,
     <<NumTok(1), NumTok(1), WordTok>>,
     <<(NumTok(1))>>,
     <<NumTok(1), NumTok(1), NumTok(1), NumTok(1)>>}

InitParseInputs(lines, kind) ==
    /\ pc = "call"
    /\ arg_peak_data = Str(lines)
    /\ arg_nmr_type = kind
    /\ sample_hsqc = Str(<<>>)
    /\ sample_cosy = Str(<<>>)
    /\ sample_hmbc = Str(<<>>)
    /\ db_entries = <<>>
    /\ tolerance_h = TOLERANCE_H_MATCH
    /\ tolerance_c = TOLERANCE_C_MATCH
    /\ result = NoResult
    /\ scored = <<>>
    /\ sample_peaks = <<>>
    /\ db_peaks = <<>>
    /\ matches = <<>>
    /\ pairs = <<>>
    /\ entries_collection = <<>>
    /\ NoCompareCall
    /\ NoStoreParse
    /\ NoRequest

InitParse ==
    \E lines \in SeqsUpTo(ParseTextLines, MaxParseLines) : \E kind \in NmrTypes :
        InitParseInputs(lines, kind)

\* the list returned is held in the field peaks of a record
ParsePeakData ==
    /\ pc = "call"
    /\ pc' = "parsed"
    /\ result' = IF ParseRaises(arg_peak_data) THEN Raised
                 ELSE [peaks |-> parse_peak_data(arg_peak_data, arg_nmr_type)]
    /\ UNCHANGED <<sample_peaks, db_peaks, sample_hsqc, sample_cosy, sample_hmbc,
                   db_entries, tolerance_h, tolerance_c, matches, pairs, scored,
                   entries_collection, arg_peak_data, arg_nmr_type, hsqc_peaks_str, db_df,
                   exp_df,
                   db_ops_peaks, database_peaks, request_pc, connected, initial_data>>

NextParse == ParsePeakData

SpecParse == InitParse /\ [][NextParse]_vars

(***************************************************************************)
(* SpecParsers: one peak data value handed to the parsers of the           *)
(* repository, each called once: detector.parse_peak_data on a text or on  *)
(* a list of peak records, db_operations.parse_peaks_string and            *)
(* database._parse_peak_string_to_list on a text.                          *)
(***************************************************************************)
MaxParsersLines == 2

MaxRecords == 2

\* "1 1", "0-1 1", "1 0-1", "1-1-1 1", "1 1-1-1", "1 1 3", "1 1.1.1", "w 1"
ParsersLines ==
    {<<NumTok(1), NumTok(1)>>,
     <<RangeTok(0, 1), NumTok(1)>>,
     <<NumTok(1), RangeTok(0, 1)>>,
     <<MultiHyphenTok, NumTok(1)>>,
     <<NumTok(1), MultiHyphenTok>>,
     <<NumTok(1), NumTok(1), NumTok(3)>>,
     <<NumTok(1), MultiDotTok>>,
     <<WordTok, NumTok(1)>>}

\* peak records: the dicts of a parsed peak set, whose shifts and intensity are
\* floats, with or without 'Intensity', and dicts whose shifts are strings
Records(kind) ==
    LET key1 == IF kind = "cosy" THEN "H1" ELSE "H"
        key2 == IF kind = "cosy" THEN "H2" ELSE "C"
        dict(x, y) == (key1 :> x) @@ (key2 :> y)
    IN {Dict(dict(FloatVal(x), FloatVal(2)) @@ [Intensity |-> FloatVal(i)]) :
            x \in {2, 3}, i \in {2, 4}}
       \cup {Dict(dict(FloatVal(2), FloatVal(2))),
             Dict(dict(NumTok(1), RangeTok(0, 1))),
             Dict(dict(NumTok(1), NumTok(1)) @@ [Intensity |-> FloatVal(4)])}

InitParsersInputs(data, kind) ==
    /\ pc = "call"
    /\ arg_peak_data = data
    /\ arg_nmr_type = kind
    /\ sample_hsqc = Str(<<>>)
    /\ sample_cosy = Str(<<>>)
    /\ sample_hmbc = Str(<<>>)
    /\ db_entries = <<>>
    /\ tolerance_h = TOLERANCE_H_MATCH
    /\ tolerance_c = TOLERANCE_C_MATCH
    /\ result = NoResult
    /\ scored = <<>>
    /\ sample_peaks = <<>>
    /\ db_peaks = <<>>
    /\ matches = <<>>
    /\ pairs = <<>>
    /\ entries_collection = <<>>
    /\ NoCompareCall
    /\ NoStoreParse
    /\ NoRequest

InitParsersText ==
    \E lines \in SeqsUpTo(ParsersLines, MaxParsersLines) : \E kind \in NmrTypes :
        InitParsersInputs(Str(lines), kind)

InitParsersRecords ==
    \E kind \in NmrTypes : \E items \in SeqsUpTo(Records(kind), MaxRecords) :
        InitParsersInputs(List(items), kind)

InitParsers == InitParsersText \/ InitParsersRecords

\* parse_peaks_string(peaks_str) on the text; the list returned is held in the
\* field peaks of a record
ParsePeaksString ==
    /\ arg_peak_data.form = "str"
    /\ db_ops_peaks = NoResult
    /\ db_ops_peaks' = [peaks |-> parse_peaks_string(arg_peak_data).items]
    /\ UNCHANGED <<pc, sample_peaks, db_peaks, sample_hsqc, sample_cosy, sample_hmbc,
                   db_entries, tolerance_h, tolerance_c, matches, pairs, result, scored,
                   entries_collection, arg_peak_data, arg_nmr_type, hsqc_peaks_str, db_df,
                   exp_df, database_peaks, request_pc, connected, initial_data>>

\* _parse_peak_string_to_list(peak_string) on the text
ParsePeakStringToList ==
    /\ arg_peak_data.form = "str"
    /\ database_peaks = NoResult
    /\ database_peaks' = [peaks |-> parse_peak_string_to_list(arg_peak_data).items]
    /\ UNCHANGED <<pc, sample_peaks, db_peaks, sample_hsqc, sample_cosy, sample_hmbc,
                   db_entries, tolerance_h, tolerance_c, matches, pairs, result, scored,
                   entries_collection, arg_peak_data, arg_nmr_type, hsqc_peaks_str, db_df,
                   exp_df, db_ops_peaks, request_pc, connected, initial_data>>

NextParsers == ParsePeakData \/ ParsePeaksString \/ ParsePeakStringToList

SpecParsers == InitParsers /\ [][NextParsers]_vars

(***************************************************************************)
(* SpecCompare: one call of compare_peaks with the default tolerances, on  *)
(* every bounded input of two families: texts with malformed lines against *)
(* a few tables, and numeric texts against every table of bounded length.  *)
(***************************************************************************)
\* most lines of a text with malformed lines, and of a numeric text
MaxCompareLines == 2

MaxCalibrateLines == 2

\* most rows of db_df
MaxRefRows == 3

\* the row of db_df
RefRow(id, x, y) == [database_id |-> id, chemical_shift_x |-> x, chemical_shift_y |-> y]

\* numeric lines: 1H 3.31 or 3.37, 13C 49.1 or 50.0, intensity absent, 1 or 2
NumericLines ==
    {<<NumTok(x), NumTok(y)>> : x \in {331, 337}, y \in {491, 500}}
    \cup {<<NumTok(x), NumTok(y), NumTok(i)>> :
              x \in {331, 337}, y \in {491, 500}, i \in {1, 2}}

\* "", "w", "3.31", "w 49.1", "3.31 49.1 w", "NaN 49.1 1", "3.31 49.1 NaN", and
\* four numeric lines
CompareTextLines ==
    {<<>>,
     <<WordTok>>,
     <<(NumTok(331))>>,
     <<WordTok, NumTok(491)>>,
     <<NumTok(331), NumTok(491), WordTok>>,
     <<NaTok, NumTok(491), NumTok(1)>>,
     <<NumTok(331), NumTok(491), NaTok>>,
     <<NumTok(331), NumTok(491)>>,
     <<NumTok(331), NumTok(491), NumTok(1)>>,
     <<NumTok(337), NumTok(491), NumTok(2)>>,
     <<NumTok(337), NumTok(500), NumTok(1)>>}

\* rows of compounds 1 and 2 at 1H 3.31 or 3.43 and 13C 49.1
RefRows == {RefRow(id, x, 491) : id \in {1, 2}, x \in {331, 343}}

TextTables ==
    {<<>>, <<RefRow(1, 331, 491)>>, <<RefRow(1, 331, 491), RefRow(1, 343, 491)>>}

InitCompareInputs(lines, table) ==
    /\ pc = "call"
    /\ hsqc_peaks_str = Str(lines)
    /\ db_df = table
    /\ exp_df = <<>>
    /\ sample_hsqc = Str(<<>>)
    /\ sample_cosy = Str(<<>>)
    /\ sample_hmbc = Str(<<>>)
    /\ db_entries = <<>>
    /\ tolerance_h = TOLERANCE_H_MATCH
    /\ tolerance_c = TOLERANCE_C_MATCH
    /\ result = NoResult
    /\ scored = <<>>
    /\ sample_peaks = <<>>
    /\ db_peaks = <<>>
    /\ matches = <<>>
    /\ pairs = <<>>
    /\ entries_collection = <<>>
    /\ NoParseCall
    /\ NoStoreParse
    /\ NoRequest

InitCompareText ==
    \E lines \in SeqsUpTo(CompareTextLines, MaxCompareLines) : \E table \in TextTables :
        InitCompareInputs(lines, table)

InitCompareTable ==
    \E lines \in SeqsUpTo(NumericLines, MaxCalibrateLines) :
    \E table \in SeqsUpTo(RefRows, MaxRefRows) :
        InitCompareInputs(lines, table)

InitCompare == InitCompareText \/ InitCompareTable

ComparePeaks ==
    /\ pc = "call"
    /\ pc' = "compared"
    /\ result' = compare_peaks(hsqc_peaks_str, db_df)
    /\ exp_df' = IF IsBlank(hsqc_peaks_str) \/ CompareRaises(hsqc_peaks_str) THEN <<>>
                 ELSE Frame(hsqc_peaks_str)
    /\ UNCHANGED <<sample_peaks, db_peaks, sample_hsqc, sample_cosy, sample_hmbc,
                   db_entries, tolerance_h, tolerance_c, matches, pairs, scored,
                   entries_collection, arg_peak_data, arg_nmr_type, hsqc_peaks_str, db_df,
                   db_ops_peaks, database_peaks, request_pc, connected, initial_data>>

NextCompare == ComparePeaks

SpecCompare == InitCompare /\ [][NextCompare]_vars

(***************************************************************************)
(* SpecEmpty: one call of parse_peak_data, of analyze_mixture or of        *)
(* compare_peaks on a sample text that is empty or made of blank lines.    *)
(***************************************************************************)
MaxBlankLines == 2

\* "", "\n", "\n\n": the texts of at most MaxBlankLines blank lines
BlankTexts == {Str(lines) : lines \in SeqsUpTo({<<>>}, MaxBlankLines)}

\* the databases analysed: none, one or two compounds with peaks
EmptyCaseEntries ==
    LET both == <<NumTok(2), NumTok(2)>>
        range == <<RangeTok(0, 1), NumTok(0)>>
        a == <<(<<both>>), <<both>>, <<>>>>
        b == <<(<<range, both>>), <<>>, <<both>>>>
    IN {<<>>, <<a>>, <<b>>, <<a, b>>}

InitEmptyParse ==
    \E text \in BlankTexts : \E kind \in NmrTypes :
        InitParseInputs(text.lines, kind)

InitEmptyAnalyze ==
    \E hsqc, cosy, hmbc \in BlankTexts : \E compounds \in EmptyCaseEntries :
        InitInputs(<<hsqc.lines, cosy.lines, hmbc.lines>>, compounds)

InitEmptyCompare ==
    \E text \in BlankTexts : \E table \in SeqsUpTo(RefRows, MaxRefRows) :
        InitCompareInputs(text.lines, table)

InitEmpty == InitEmptyParse \/ InitEmptyAnalyze \/ InitEmptyCompare

NextEmpty == ParsePeakData \/ AnalyzeMixture \/ ComparePeaks

SpecEmpty == InitEmpty /\ [][NextEmpty]_vars

(***************************************************************************)
(* Claims about find_compound_matches.                                     *)
(***************************************************************************)
\* the two shifts of a peak dict, whatever its spectrum type
Axis1(peak) == IF "H" \in DOMAIN peak THEN peak.H ELSE peak.H1

Axis2(peak) == IF "C" \in DOMAIN peak THEN peak.C ELSE peak.H2

\* |ref.axis1 - sample.axis1| <= tol1 and |ref.axis2 - sample.axis2| <= tol2
InTolerance(ref, sample, tol1, tol2) ==
    /\ Axis1(ref) - Axis1(sample) <= tol1
    /\ Axis1(sample) - Axis1(ref) <= tol1
    /\ Axis2(ref) - Axis2(sample) <= tol2
    /\ Axis2(sample) - Axis2(ref) <= tol2

\* C1: the pairs find_compound_matches returns are a one-to-one correspondence:
\* no sample index and no reference index occurs in two pairs, each pair is the
\* pair of peaks at its indices, and each pair is within tolerance on both axes,
\* bounds inclusive.
C1_OneToOne ==
    pc = "done" =>
        /\ Len(pairs) = Len(matches)
        /\ \A k \in 1..Len(pairs) :
              /\ pairs[k][1] \in 1..Len(sample_peaks)
              /\ pairs[k][2] \in 1..Len(db_peaks)
              /\ matches[k].sample_peak = sample_peaks[pairs[k][1]]
              /\ matches[k].db_peak = db_peaks[pairs[k][2]]
              /\ InTolerance(matches[k].db_peak, matches[k].sample_peak,
                             tolerance_h, tolerance_c)
        /\ \A k, l \in 1..Len(pairs) :
              k # l => pairs[k][1] # pairs[l][1] /\ pairs[k][2] # pairs[l][2]

\* C1 witness: two pairs are returned, one of them exactly at the tolerance bound
C1_Witness ==
    /\ pc = "done"
    /\ Len(matches) = 2
    /\ tolerance_h = 1
    /\ \E k \in 1..2 :
          Axis1(matches[k].db_peak) - Axis1(matches[k].sample_peak) = tolerance_h

\* the sample indices consumed by reference peaks before reference peak j
ConsumedBefore(j) == {pairs[k][1] : k \in {k \in 1..Len(pairs) : pairs[k][2] < j}}

\* the sample indices reference peak j may take at its turn
Eligible(j) ==
    {i \in 1..Len(sample_peaks) :
        /\ i \notin ConsumedBefore(j)
        /\ InTolerance(db_peaks[j], sample_peaks[i], tolerance_h, tolerance_c)}

\* C2: reference peaks are processed in stored order and each is paired with the
\* lowest-index unconsumed sample peak within tolerance; a reference peak stays
\* unpaired exactly when no such sample peak is left at its turn.
C2_GreedyLowestIndex ==
    pc = "done" =>
        /\ \A k, l \in 1..Len(pairs) : k < l => pairs[k][2] < pairs[l][2]
        /\ \A j \in 1..Len(db_peaks) :
              /\ (\E k \in 1..Len(pairs) : pairs[k][2] = j) <=> Eligible(j) # {}
              /\ \A k \in 1..Len(pairs) :
                    pairs[k][2] = j =>
                        /\ pairs[k][1] \in Eligible(j)
                        /\ \A i \in Eligible(j) : pairs[k][1] <= i

\* C2 witness: one sample peak is within tolerance of two reference peaks, the
\* earlier one got it and the later one stays unpaired; elsewhere a reference peak
\* chose between two eligible sample peaks
C2_Witness ==
    /\ pc = "done"
    /\ Len(db_peaks) = 2
    /\ Len(sample_peaks) = 1
    /\ InTolerance(db_peaks[1], sample_peaks[1], tolerance_h, tolerance_c)
    /\ InTolerance(db_peaks[2], sample_peaks[1], tolerance_h, tolerance_c)
    /\ pairs = <<(<<1, 1>>)>>


(***************************************************************************)
(* Claims about analyze_mixture.  scored[k] is what the call computed for  *)
(* db_entries[k]; a compound's id is its position in db_entries.           *)
(***************************************************************************)
Returned == pc = "done" /\ result # Raised

\* the positions in detected_entries
Detected == 1..Len(result.detected_entries)

\* the position in db_entries of the compound of detected entry e
EntryOf(e) == result.detected_entries[e].compound.id

\* the number of pairs found, and of compound peaks, of compound k and type t
PairCount(k, t) == Len(scored[k].matches[t])

PeakCount(k, t) == scored[k].n_peaks[t]

\* the percentage reported in the details of a detected entry
DetailPercentage(e, t) ==
    IF t = "hsqc" THEN result.detected_entries[e].details.hsqc_percentage
    ELSE IF t = "cosy" THEN result.detected_entries[e].details.cosy_percentage
    ELSE result.detected_entries[e].details.hmbc_percentage

\* C3: for each compound and spectrum type the percentage is (pairs found) /
\* (compound peaks) when the compound has a peak of that type and null, never 0,
\* when it has none; the details of a detected entry report that percentage.
C3_Percentage ==
    Returned =>
        /\ Len(scored) = Len(db_entries)
        /\ \A k \in 1..Len(scored) : \A t \in NmrTypes :
              IF PeakCount(k, t) >= 1
              THEN /\ scored[k].percentage[t] # Null
                   /\ scored[k].percentage[t].d > 0
                   /\ scored[k].percentage[t].n * PeakCount(k, t)
                         = PairCount(k, t) * scored[k].percentage[t].d
              ELSE scored[k].percentage[t] = Null
        /\ \A e \in Detected : \A t \in NmrTypes :
              DetailPercentage(e, t) = scored[EntryOf(e)].percentage[t]

\* C3 witness: a detected compound with a partly matched type, a wholly unmatched
\* type (percentage 0) and a type without peaks (percentage null)
C3_Witness ==
    /\ Returned
    /\ \E e \in Detected : \E t1, t2, t3 \in NmrTypes :
          /\ PeakCount(EntryOf(e), t1) = 2 /\ PairCount(EntryOf(e), t1) = 1
          /\ PeakCount(EntryOf(e), t2) = 1 /\ PairCount(EntryOf(e), t2) = 0
          /\ PeakCount(EntryOf(e), t3) = 0
          /\ DetailPercentage(e, t2) = [n |-> 0, d |-> 1]
          /\ DetailPercentage(e, t3) = Null

\* the types of which compound k has peaks
Evaluated(k) == {t \in NmrTypes : PeakCount(k, t) >= 1}

\* numerator and denominator of the sum over the evaluated types of
\* PairCount / PeakCount, on the common denominator of the three types
Den(k, t) == IF PeakCount(k, t) >= 1 THEN PeakCount(k, t) ELSE 1

Num(k, t) == IF PeakCount(k, t) >= 1 THEN PairCount(k, t) ELSE 0

SumDen(k) == Den(k, "hsqc") * Den(k, "cosy") * Den(k, "hmbc")

SumNum(k) ==
    Num(k, "hsqc") * Den(k, "cosy") * Den(k, "hmbc")
    + Num(k, "cosy") * Den(k, "hsqc") * Den(k, "hmbc")
    + Num(k, "hmbc") * Den(k, "hsqc") * Den(k, "cosy")

\* C4: match_score is the arithmetic mean of the percentages of the types the
\* compound has peaks of, and 0.0 when it has no peaks of any type; a detected
\* entry reports that score.
C4_MatchScore ==
    Returned =>
        /\ \A k \in 1..Len(scored) :
              /\ scored[k].match_score.d > 0
              /\ IF Evaluated(k) = {}
                 THEN scored[k].match_score.n = 0
                 ELSE scored[k].match_score.n * Cardinality(Evaluated(k)) * SumDen(k)
                         = SumNum(k) * scored[k].match_score.d
        /\ \A e \in Detected :
              result.detected_entries[e].match_score = scored[EntryOf(e)].match_score

\* C4 witness: a compound with peaks of exactly two types, 1 of 2 matched in one
\* and 0 of 1 in the other, scores the mean 1/4 of 1/2 and 0, the third type left out
C4_Witness ==
    /\ Returned
    /\ \E e \in Detected : \E t1, t2 \in NmrTypes :
          /\ t1 # t2
          /\ Evaluated(EntryOf(e)) = {t1, t2}
          /\ PeakCount(EntryOf(e), t1) = 2 /\ PairCount(EntryOf(e), t1) = 1
          /\ PeakCount(EntryOf(e), t2) = 1 /\ PairCount(EntryOf(e), t2) = 0
          /\ result.detected_entries[e].match_score = [n |-> 1, d |-> 4]

\* C5: a compound is in detected_entries, once, if and only if its match_score is
\* at least 0.10.
C5_Threshold ==
    Returned =>
        /\ \A k \in 1..Len(scored) :
              (\E e \in Detected : EntryOf(e) = k)
                  <=> scored[k].match_score.n * 10 >= scored[k].match_score.d
        /\ \A e, f \in Detected : EntryOf(e) = EntryOf(f) => e = f
        /\ \A e \in Detected :
              result.detected_entries[e].compound = db_entries[EntryOf(e)]

\* C5 witness: a compound scoring exactly 0.10 (1 of 5 in one type, 0 of 1 in
\* another) is detected
C5_Witness ==
    /\ Returned
    /\ \E e \in Detected :
          /\ result.detected_entries[e].match_score = [n |-> 1, d |-> 10]
          /\ \E t \in NmrTypes :
                PeakCount(EntryOf(e), t) = 5 /\ PairCount(EntryOf(e), t) = 1

\* p >= q for two fractions with positive denominators
AtLeast(p, q) == p.n * q.d >= q.n * p.d

\* C6: detected_entries is ordered by match_score descending, and compounds of
\* equal match_score keep their relative order of db_entries.
C6_Ordering ==
    Returned =>
        \A e, f \in Detected :
            e < f =>
                /\ AtLeast(result.detected_entries[e].match_score,
                           result.detected_entries[f].match_score)
                /\ AtLeast(result.detected_entries[f].match_score,
                           result.detected_entries[e].match_score)
                       => EntryOf(e) < EntryOf(f)

\* C6 witness: two compounds of equal score, below 1, are both detected
C6_Witness ==
    /\ Returned
    /\ Len(result.detected_entries) = 2
    /\ result.detected_entries[1].match_score = [n |-> 1, d |-> 2]
    /\ result.detected_entries[2].match_score = [n |-> 1, d |-> 2]
    /\ result.detected_entries[1].compound.hsqc_peaks
          # result.detected_entries[2].compound.hsqc_peaks

\* the parsed sample peaks of a type, and a sample peak as reported: [shift1, shift2]
SampleOf(t) ==
    parse_peak_data(IF t = "hsqc" THEN sample_hsqc
                    ELSE IF t = "cosy" THEN sample_cosy ELSE sample_hmbc, t)

Reported(peak) == <<Axis1(peak), Axis2(peak)>>

\* the sample peaks, as reported, at the indices outside drop, in sample order
RECURSIVE PeaksOutside(_, _, _)
PeaksOutside(sample, i, drop) ==
    IF i > Len(sample) THEN <<>>
    ELSE (IF i \in drop THEN <<>> ELSE <<Reported(sample[i])>>)
         \o PeaksOutside(sample, i + 1, drop)

\* the sample indices of type t paired while matching compound k
ConsumedBy(k, t) == {scored[k].pairs[t][j][1] : j \in 1..Len(scored[k].pairs[t])}

\* compound k was accepted: it is in detected_entries
IsDetected(k) == \E e \in Detected : EntryOf(e) = k

\* C7: unmatched_sample_peaks[t] holds the sample peaks never consumed by the
\* matching of an accepted compound: a sample peak paired only while matching
\* compounds that were not accepted is still reported as unmatched.
C7_UnmatchedAcceptedOnly ==
    Returned =>
        \A t \in NmrTypes : \A i \in 1..Len(SampleOf(t)) :
            (\A k \in 1..Len(scored) : IsDetected(k) => i \notin ConsumedBy(k, t))
                => \E u \in 1..Len(result.unmatched_sample_peaks[t]) :
                       result.unmatched_sample_peaks[t][u] = Reported(SampleOf(t)[i])

\* C8: unmatched_sample_peaks[t] is, in sample order, exactly the sample peaks
\* whose index no matching call of the run consumed, identical peaks included.
C8_UnmatchedByIndex ==
    Returned =>
        \A t \in NmrTypes :
            result.unmatched_sample_peaks[t]
                = PeaksOutside(SampleOf(t), 1,
                               UNION {ConsumedBy(k, t) : k \in 1..Len(scored)})

\* C9: when no compound reached the threshold, detected_entries is empty, no
\* error is raised and unmatched_sample_peaks is the full sample of each type.
C9_NoDetectionAllUnmatched ==
    (pc = "done" /\ (result = Raised \/ result.detected_entries = <<>>)) =>
        /\ result # Raised
        /\ \A t \in NmrTypes :
              result.unmatched_sample_peaks[t] = PeaksOutside(SampleOf(t), 1, {})


(***************************************************************************)
(* Claims about stored compounds.                                          *)
(***************************************************************************)
\* the stored peak [x, y] is within the tolerances of the sample peak
StoredInTolerance(stored, sample, tol1, tol2) ==
    /\ stored.v[1] - Axis1(sample) <= tol1
    /\ Axis1(sample) - stored.v[1] <= tol1
    /\ stored.v[2] - Axis2(sample) <= tol2
    /\ Axis2(sample) - stored.v[2] <= tol2

\* entry k was stored from text with two HSQC peaks and no COSY or HMBC peak, and
\* the sample has two HSQC peaks, one within tolerance of each; no sample peak is
\* within tolerance of both
TwoPeaksBothInSample(k) ==
    /\ db_entries[k].hsqc_peaks.form = "list"
    /\ Len(db_entries[k].hsqc_peaks.items) = 2
    /\ db_entries[k].cosy_peaks = List(<<>>)
    /\ db_entries[k].hmbc_peaks = List(<<>>)
    /\ \E i1, i2 \in 1..Len(SampleOf("hsqc")) :
          /\ i1 # i2
          /\ StoredInTolerance(db_entries[k].hsqc_peaks.items[1], SampleOf("hsqc")[i1],
                               tolerance_h, tolerance_c)
          /\ StoredInTolerance(db_entries[k].hsqc_peaks.items[2], SampleOf("hsqc")[i2],
                               tolerance_h, tolerance_c)
    /\ \A i \in 1..Len(SampleOf("hsqc")) :
          ~ /\ StoredInTolerance(db_entries[k].hsqc_peaks.items[1], SampleOf("hsqc")[i],
                                 tolerance_h, tolerance_c)
            /\ StoredInTolerance(db_entries[k].hsqc_peaks.items[2], SampleOf("hsqc")[i],
                                 tolerance_h, tolerance_c)

\* C10: a compound stored from peak text through add_entry or update_entry and
\* read back by get_all_entries is scored against the peaks of that text: with 2
\* HSQC peaks, no COSY or HMBC peak and sample HSQC peaks within tolerance of
\* both, it is reported with hsqc_percentage = 1.0 and match_score = 1.0.
C10_StoredEntryScored ==
    Returned =>
        \A k \in 1..Len(db_entries) :
            TwoPeaksBothInSample(k) =>
                \E e \in Detected :
                    /\ result.detected_entries[e].compound = db_entries[k]
                    /\ result.detected_entries[e].details.hsqc_percentage = [n |-> 1, d |-> 1]
                    /\ result.detected_entries[e].match_score = [n |-> 1, d |-> 1]


(***************************************************************************)
(* Claims about calibration in analyze_mixture.  Shifts of the analysis    *)
(* are in half units of 0.1 ppm, 5 hundredths of a ppm each; the reference *)
(* shifts are 331 hundredths and 491 tenths of a ppm.                      *)
(***************************************************************************)
\* the calibration anchor of a sample: its first peak of greatest intensity
AnchorOf(sample) ==
    sample[CHOOSE i \in 1..Len(sample) :
               /\ \A k \in 1..Len(sample) : sample[k].Intensity <= sample[i].Intensity
               /\ \A k \in 1..Len(sample) :
                     sample[k].Intensity = sample[i].Intensity => i <= k]

\* the sample peak, shifted by the offset that takes the anchor to the reference
\* shifts, is within the tolerances of the compound peak; in hundredths of a ppm
CalibratedInTolerance(ref, sample, anchor, tol1, tol2) ==
    LET cal1 == 5 * Axis1(sample) + (methanol_1H_ref - 5 * Axis1(anchor))
        cal2 == 5 * Axis2(sample) + (10 * methanol_13C_ref - 5 * Axis2(anchor))
    IN /\ 5 * Axis1(ref) - cal1 <= 5 * tol1
       /\ cal1 - 5 * Axis1(ref) <= 5 * tol1
       /\ 5 * Axis2(ref) - cal2 <= 5 * tol2
       /\ cal2 - 5 * Axis2(ref) <= 5 * tol2

\* C11: analyze_mixture matches the calibrated sample: every HSQC pair it makes
\* is of a compound peak and a sample peak that are within tolerance once the
\* sample is shifted by the offset of its maximum-intensity peak; the calibrated
\* shifts stay internal, unmatched peaks are reported with their original shifts.
C11_CalibratedMatching ==
    Returned =>
        /\ \A k \in 1..Len(scored) : \A j \in 1..Len(scored[k].pairs.hsqc) :
              CalibratedInTolerance(scored[k].matches.hsqc[j].db_peak,
                                    SampleOf("hsqc")[scored[k].pairs.hsqc[j][1]],
                                    AnchorOf(SampleOf("hsqc")),
                                    tolerance_h, tolerance_c)
        /\ \A t \in NmrTypes : \A u \in 1..Len(result.unmatched_sample_peaks[t]) :
              \E i \in 1..Len(SampleOf(t)) :
                  result.unmatched_sample_peaks[t][u] = Reported(SampleOf(t)[i])


\* the fraction p lies in [0, 1]
InUnitInterval(p) == p.d > 0 /\ 0 <= p.n /\ p.n <= p.d

\* C12: every reported match_score and every non-null percentage lies in [0, 1]:
\* for every compound and type the number of pairs exceeds neither the number of
\* compound peaks nor the number of sample peaks of that type.
C12_ScoresInUnitInterval ==
    Returned =>
        /\ \A k \in 1..Len(scored) : \A t \in NmrTypes :
              /\ PairCount(k, t) <= PeakCount(k, t)
              /\ PairCount(k, t) <= Len(SampleOf(t))
        /\ \A e \in Detected :
              /\ InUnitInterval(result.detected_entries[e].match_score)
              /\ \A t \in NmrTypes :
                    DetailPercentage(e, t) # Null => InUnitInterval(DetailPercentage(e, t))

\* C12 witness: a detected compound has two peaks of a type, both within tolerance
\* of the only sample peak of that type, and one pair: the percentage is 1/2
C12_Witness ==
    /\ Returned
    /\ \E e \in Detected : \E t \in NmrTypes :
          /\ Len(SampleOf(t)) = 1
          /\ PeakCount(EntryOf(e), t) = 2
          /\ \A j \in 1..2 :
                InTolerance(parse_peak_data(PeaksField(db_entries[EntryOf(e)], t), t)[j],
                            SampleOf(t)[1], tolerance_h,
                            IF t = "cosy" THEN tolerance_h ELSE tolerance_c)
          /\ PairCount(EntryOf(e), t) = 1
          /\ DetailPercentage(e, t) = [n |-> 1, d |-> 2]


(***************************************************************************)
(* Claims about compare_peaks.  exp_df is the frame the comparison reads,  *)
(* empty when compare_peaks returned early or raised.                      *)
(***************************************************************************)
Compared == pc = "compared"

\* row a of exp_df is the anchor: every row is shifted by the offsets that take
\* row a to the reference shifts
ShiftedBy(a) ==
    LET offset1 == methanol_1H_ref - exp_df[a].H
        offset2 == methanol_13C_ref - exp_df[a].C
    IN \A i \in 1..Len(exp_df) :
          /\ exp_df[i].H_calibrated = exp_df[i].H + offset1
          /\ exp_df[i].C_calibrated = exp_df[i].C + offset2

C13_Calibrated ==
    (Compared /\ exp_df # <<>>) =>
        \E a \in 1..Len(exp_df) :
            /\ ShiftedBy(a)
            /\ exp_df[a].H_calibrated = methanol_1H_ref
            /\ exp_df[a].C_calibrated = methanol_13C_ref
            /\ \A i, j \in 1..Len(exp_df) :
                  /\ exp_df[i].H_calibrated - exp_df[j].H_calibrated
                        = exp_df[i].H - exp_df[j].H
                  /\ exp_df[i].C_calibrated - exp_df[j].C_calibrated
                        = exp_df[i].C - exp_df[j].C

RECURSIVE PeakLines(_)
PeakLines(lines) ==
    IF lines = <<>> THEN <<>>
    ELSE (IF Head(lines) = <<>> THEN <<>> ELSE <<Head(lines)>>) \o PeakLines(Tail(lines))

\* every line of the text that is not blank is two numbers or three numbers
AllNumeric(text) ==
    \A i \in 1..Len(text.lines) :
        /\ Len(text.lines[i]) \in {0, 2, 3}
        /\ \A c \in 1..Len(text.lines[i]) : text.lines[i][c].k = "num"

\* the intensity a line counts with: its third token, or 1.0 without one
CountedIntensity(line) == IF Len(line) = 3 THEN line[3].v ELSE 1

\* the first of the lines of greatest counted intensity
AnchorLine(lines) ==
    CHOOSE a \in 1..Len(lines) :
        /\ \A k \in 1..Len(lines) : CountedIntensity(lines[k]) <= CountedIntensity(lines[a])
        /\ \A k \in 1..Len(lines) :
              CountedIntensity(lines[k]) = CountedIntensity(lines[a]) => a <= k

\* C14: the calibration anchor is the sample peak of maximum intensity, the first
\* of them on a tie, a line without intensity token counting with intensity 1.0;
\* a sample in which no line has an intensity is calibrated by its first peak and
\* a result is returned.
C14_AnchorMaxIntensity ==
    (Compared /\ AllNumeric(hsqc_peaks_str) /\ ~IsBlank(hsqc_peaks_str)) =>
        /\ result \notin {Raised, RaisedNoLabel}
        /\ Len(exp_df) = Len(PeakLines(hsqc_peaks_str.lines))
        /\ ShiftedBy(AnchorLine(PeakLines(hsqc_peaks_str.lines)))


\* compare_peaks went through the comparison: it returned its two lists alone
ComparedAll == Compared /\ DOMAIN result = {"fully", "partial"}

\* the compound ids of the table
Ids == {db_df[j].database_id : j \in 1..Len(db_df)}

\* the rows of db_df of compound id
RowsOf(id) == {j \in 1..Len(db_df) : db_df[j].database_id = id}

\* row j of db_df has a calibrated sample peak within tolerance on both axes
IsHit(j) ==
    \E i \in 1..Len(exp_df) :
        /\ db_df[j].chemical_shift_x - exp_df[i].H_calibrated <= delta_1H
        /\ exp_df[i].H_calibrated - db_df[j].chemical_shift_x <= delta_1H
        /\ db_df[j].chemical_shift_y - exp_df[i].C_calibrated <= delta_13C
        /\ exp_df[i].C_calibrated - db_df[j].chemical_shift_y <= delta_13C

Total(id) == Cardinality(RowsOf(id))

Hits(id) == Cardinality({j \in RowsOf(id) : IsHit(j)})

ValidLine(line) == Len(line) \in {2, 3} /\ \A c \in 1..Len(line) : line[c].k = "num"

\* a malformed line: a token count other than two or three, or a token that is
\* a word
MalformedLine(line) ==
    Len(line) \notin {2, 3} \/ \E c \in 1..Len(line) : line[c].k = "word"

\* the frame has a row for line n (counted from 0) of lines
HasRow(lines, n) ==
    \E i \in 1..Len(exp_df) :
        /\ exp_df[i].index = n
        /\ exp_df[i].H = lines[n + 1][1].v
        /\ exp_df[i].C = lines[n + 1][2].v

\* C17: a sample text that is not empty and has empty or malformed lines (tokens
\* that are not numbers, a wrong count of tokens) among valid lines is handled
\* line by line: no exception escapes compare_peaks, the malformed lines are
\* dropped and the valid peaks are calibrated and compared.
C17_MalformedLinesDropped ==
    (/\ Compared
     /\ \E i \in 1..Len(hsqc_peaks_str.lines) : ValidLine(hsqc_peaks_str.lines[i]))
        => /\ ComparedAll
           /\ \A n \in 0..(Len(PeakLines(hsqc_peaks_str.lines)) - 1) :
                 /\ ValidLine(PeakLines(hsqc_peaks_str.lines)[n + 1])
                       => HasRow(PeakLines(hsqc_peaks_str.lines), n)
                 /\ MalformedLine(PeakLines(hsqc_peaks_str.lines)[n + 1])
                       => \A i \in 1..Len(exp_df) : exp_df[i].index # n


(***************************************************************************)
(* Claims about parse_peak_data and about empty samples.                   *)
(***************************************************************************)
Parsed == pc = "parsed"

\* the text is empty or made of blank lines only
AllBlank(data) == data.form = "str" /\ \A i \in 1..Len(data.lines) : data.lines[i] = <<>>

ShiftOf(token) == IF token.k = "range" THEN token.a + token.b ELSE 2 * token.v

IsPeakLine(line) ==
    /\ Len(line) \in {2, 3}
    /\ line[1].k \in {"num", "range"}
    /\ line[2].k \in {"num", "range"}
    /\ Len(line) = 3 => line[3].k = "num"

PeakOf(line, t) ==
    LET intensity == IF Len(line) = 3 THEN 2 * line[3].v ELSE 2
    IN IF t = "cosy"
       THEN [H1 |-> ShiftOf(line[1]), H2 |-> ShiftOf(line[2]), Intensity |-> intensity]
       ELSE [H |-> ShiftOf(line[1]), C |-> ShiftOf(line[2]), Intensity |-> intensity]

RECURSIVE PeaksOfLines(_, _)
PeaksOfLines(lines, t) ==
    IF lines = <<>> THEN <<>>
    ELSE (IF IsPeakLine(Head(lines)) THEN <<PeakOf(Head(lines), t)>> ELSE <<>>)
         \o PeaksOfLines(Tail(lines), t)

\* C19: parse_peak_data on text returns, in line order, one peak per line of two
\* shift tokens and an optional numeric intensity: a shift is the float of its
\* token or the midpoint of its range, the intensity the third token or 1.0.  A
\* line without two valid shifts adds no peak and the valid lines around it are
\* kept.
C19_ParseText ==
    Parsed => result = [peaks |-> PeaksOfLines(arg_peak_data.lines, arg_nmr_type)]

\* C20: parse errors never abort the parse: for every text, a third token that is
\* only a dot and shift tokens with several dots or hyphens included,
\* parse_peak_data returns its peaks without raising.
C20_ParseNeverRaises ==
    Parsed => result # Raised

(***************************************************************************)
(* Claims about the three parsers of peak text.                            *)
(***************************************************************************)
\* the lines of the text handed to the parsers that have no shift token of
\* several hyphens
SoundLines ==
    {i \in 1..Len(arg_peak_data.lines) :
        \A c \in 1..2 : arg_peak_data.lines[i][c].k # "hyphens"}

\* C21: a shift token with more than one hyphen ('A-B-C') gives no peak value in
\* any parser: detector.parse_peak_data, db_operations.parse_peaks_string and
\* database._parse_peak_string_to_list each return at most one peak per line
\* that has no such token.
C21_MalformedRangeDropped ==
    arg_peak_data.form = "str" =>
        /\ (Parsed /\ result # Raised) => Len(result.peaks) <= Cardinality(SoundLines)
        /\ db_ops_peaks # NoResult => Len(db_ops_peaks.peaks) <= Cardinality(SoundLines)
        /\ database_peaks # NoResult => Len(database_peaks.peaks) <= Cardinality(SoundLines)

(***************************************************************************)
(* Claims about the tolerances and the axes in analyze_mixture.            *)
(***************************************************************************)
\* the tolerance of the second axis for a spectrum type
TypeTolerance(t) == IF t = "cosy" THEN tolerance_h ELSE tolerance_c

\* the parsed peaks of a type of compound k
CompoundPeaksOf(k, t) == parse_peak_data(PeaksField(db_entries[k], t), t)

\* C22: COSY is matched with the 1H tolerance on both axes, HSQC and HMBC with
\* (tolerance_h, tolerance_c), and each type against the sample peaks of the
\* same type only: every pair of a type joins a sample peak and a compound peak
\* of that type within those tolerances, and a type has a pair whenever some
\* compound peak and some sample peak of the type are within them.
C22_TolerancesPerType ==
    Returned =>
        \A k \in 1..Len(scored) : \A t \in NmrTypes :
            /\ \A n \in 1..PairCount(k, t) :
                  LET i == scored[k].pairs[t][n][1]
                      j == scored[k].pairs[t][n][2]
                  IN /\ i \in 1..Len(SampleOf(t))
                     /\ j \in 1..Len(CompoundPeaksOf(k, t))
                     /\ scored[k].matches[t][n].sample_peak = SampleOf(t)[i]
                     /\ scored[k].matches[t][n].db_peak = CompoundPeaksOf(k, t)[j]
                     /\ InTolerance(CompoundPeaksOf(k, t)[j], SampleOf(t)[i],
                                    tolerance_h, TypeTolerance(t))
            /\ (\E j \in 1..Len(CompoundPeaksOf(k, t)) : \E i \in 1..Len(SampleOf(t)) :
                    InTolerance(CompoundPeaksOf(k, t)[j], SampleOf(t)[i],
                                tolerance_h, TypeTolerance(t)))
                  => PairCount(k, t) >= 1

\* C22 witness: the sample peak "0 2" and the compound peak "0 0" are given both
\* as HSQC and as COSY; their second shifts differ by more than tolerance_h and
\* less than tolerance_c, so the HSQC peaks are paired and the COSY peaks are not
C22_Witness ==
    /\ Returned
    /\ tolerance_h = TOLERANCE_H_MATCH /\ tolerance_c = TOLERANCE_C_MATCH
    /\ sample_hsqc = Str(<<(<<NumTok(0), NumTok(2)>>)>>)
    /\ sample_cosy = sample_hsqc
    /\ db_entries[1].hsqc_peaks = Str(<<(<<NumTok(0), NumTok(0)>>)>>)
    /\ db_entries[1].cosy_peaks = db_entries[1].hsqc_peaks
    /\ PairCount(1, "hsqc") = 1
    /\ PairCount(1, "cosy") = 0

\* a COSY peak with its two axes swapped
Swapped(peak) == [H1 |-> peak.H2, H2 |-> peak.H1, Intensity |-> peak.Intensity]

\* C23: COSY matching is symmetric: a compound COSY peak within tolerance of a
\* sample COSY peak in either orientation, (a,b) or (b,a), is matched, so a
\* compound with such a peak has at least one COSY pair.
C23_CosySymmetric ==
    (Returned /\ tolerance_h >= 0) =>
        \A k \in 1..Len(scored) :
            (\E j \in 1..Len(CompoundPeaksOf(k, "cosy")) :
             \E i \in 1..Len(SampleOf("cosy")) :
                 InTolerance(CompoundPeaksOf(k, "cosy")[j], Swapped(SampleOf("cosy")[i]),
                             tolerance_h, tolerance_h))
                => PairCount(k, "cosy") >= 1

\* C24: a negative tolerance is a caller's error that fails fast: a call of
\* analyze_mixture with tolerance_h < 0 or tolerance_c < 0 ends in an error and
\* not in a normal result.
C24_NegativeToleranceFails ==
    (pc = "done" /\ (tolerance_h < 0 \/ tolerance_c < 0)) => "raised" \in DOMAIN result

(***************************************************************************)
(* Claims about what a call leaves of its arguments.                       *)
(***************************************************************************)
\* the arguments of find_compound_matches and of analyze_mixture
Inputs == <<sample_peaks, db_peaks, sample_hsqc, sample_cosy, sample_hmbc, db_entries>>

\* every compound of the result equals the database entry it was copied from
CompoundsCopied ==
    (pc = "done" /\ "detected_entries" \in DOMAIN result) =>
        \A e \in Detected : \E k \in 1..Len(db_entries) :
            /\ db_entries[k].id = EntryOf(e)
            /\ result.detected_entries[e].compound = db_entries[k]

NumericRecord(item) ==
    item.k = "dict" /\ \A key \in DOMAIN item.d : item.d[key].k = "float"

\* the peak such a record stands for
RecordPeak(item, t) ==
    LET intensity == IF "Intensity" \in DOMAIN item.d THEN item.d.Intensity.v ELSE 2
    IN IF t = "cosy"
       THEN [H1 |-> item.d.H1.v, H2 |-> item.d.H2.v, Intensity |-> intensity]
       ELSE [H |-> item.d.H.v, C |-> item.d.C.v, Intensity |-> intensity]

\* C26: parse_peak_data accepts a list of peak records whose shift fields hold
\* numbers, as the records of a parsed peak set do: it returns one peak per
\* record, in order, with the same two shifts and intensity.
C26_RecordsAccepted ==
    (/\ Parsed
     /\ arg_peak_data.form = "list"
     /\ \A i \in 1..Len(arg_peak_data.items) : NumericRecord(arg_peak_data.items[i])) =>
        result = [peaks |-> [i \in 1..Len(arg_peak_data.items) |->
                                RecordPeak(arg_peak_data.items[i], arg_nmr_type)]]

\* the two shifts of each peak of a list, in order
ShiftsOfPeaks(peaks) == [i \in 1..Len(peaks) |-> <<Axis1(peaks[i]), Axis2(peaks[i])>>]

ShiftsOfPairs(peaks) == [i \in 1..Len(peaks) |-> peaks[i].v]

\* C27: db_operations.parse_peaks_string and detector.parse_peak_data read the
\* same text format: on the same text they yield peaks for the same lines, with
\* the same two shifts; a line of two numeric shifts and a numeric third token
\* yields a peak in both.
C27_SameFormat ==
    (Parsed /\ result # Raised /\ arg_peak_data.form = "str" /\ db_ops_peaks # NoResult) =>
        ShiftsOfPeaks(result.peaks) = ShiftsOfPairs(db_ops_peaks.peaks)

(***************************************************************************)
(* Claims about the order of the peaks in find_compound_matches.           *)
(***************************************************************************)
\* the one-to-one assignments of reference peaks to sample peaks within
\* tolerance: f[j] is the sample index of reference peak j, 0 when it has none
Assignments(sample, ref) ==
    {f \in [1..Len(ref) -> 0..Len(sample)] :
        /\ \A j \in 1..Len(ref) :
              f[j] # 0 => InTolerance(ref[j], sample[f[j]], tolerance_h, tolerance_c)
        /\ \A j1, j2 \in 1..Len(ref) : (j1 # j2 /\ f[j1] = f[j2]) => f[j1] = 0}

PairsOf(f) == Cardinality({j \in DOMAIN f : f[j] # 0})

\* the number of pairs of a maximum assignment
MaxAssignment(sample, ref) ==
    LET sizes == {PairsOf(f) : f \in Assignments(sample, ref)}
    IN CHOOSE n \in sizes : \A k \in sizes : k <= n

Reversed(list) == [i \in 1..Len(list) |-> list[Len(list) + 1 - i]]

\* the number of pairs the matcher returns for the lists in another order
GreedyPairs(sample, ref) == Len(MatchRun(sample, ref, tolerance_h, tolerance_c).pairs)

\* C28: the greedy matcher depends on the order of the peaks and is not
\* globally optimal: it never returns more pairs than a maximum one-to-one
\* assignment within tolerance, it returns fewer for some inputs, and for those
\* the number of pairs changes with the order of the reference or sample peaks.
C28_GreedyNotOptimal ==
    pc = "done" => Len(pairs) <= MaxAssignment(sample_peaks, db_peaks)

\* C28 witness: two reference peaks and two sample peaks that a maximum
\* assignment pairs completely; the matcher returned one pair, and returns two
\* for the reference peaks in the other order and for the sample peaks in the
\* other order, so the compound's percentage is 1/2 or 1 by the order alone
C28_Witness ==
    /\ pc = "done"
    /\ Len(db_peaks) = 2
    /\ Len(pairs) = 1
    /\ MaxAssignment(sample_peaks, db_peaks) = 2
    /\ GreedyPairs(sample_peaks, Reversed(db_peaks)) = 2
    /\ GreedyPairs(Reversed(sample_peaks), db_peaks) = 2

(***************************************************************************)
(* Claims about the independence of the compounds in analyze_mixture.      *)
(***************************************************************************)
\* what analyze_mixture computes and returns for compound k when the database
\* holds that compound alone, the sample and the tolerances being the same
ScoredAlone(k) ==
    Scores(sample_hsqc, sample_cosy, sample_hmbc, <<db_entries[k]>>,
           tolerance_h, tolerance_c)[1]

DetectedAlone(k) ==
    analyze_mixture(sample_hsqc, sample_cosy, sample_hmbc, <<db_entries[k]>>,
                    tolerance_h, tolerance_c).detected_entries

CopiesOf(i) ==
    {k \in 1..Len(entries_collection) : entries_collection[k].name = initial_data[i].name}

InsertedAtMostOnce == \A i \in 1..Len(initial_data) : Cardinality(CopiesOf(i)) <= 1

\* C30: initial data is inserted only if the collection is empty: whatever the
\* interleaving of concurrent GET /api/entries requests, every entry of
\* nmr_database.json is in the collection at most once, and no step inserts
\* into a collection that already holds documents.
C30_InitialDataOnce ==
    [](InsertedAtMostOnce)
    /\ [][entries_collection' # entries_collection => entries_collection = <<>>]_vars

=============================================================================
